---- MODULE Spec2Model ----
(***************************************************************************)
(* Model of AbyxBot's game lobby (games/protocol/lobby.py) and of the      *)
(* BroadcastQueue fan-out primitive (lib/utils.py).                        *)
(*                                                                         *)
(* Every button callback of LobbyView is a coroutine on one asyncio event  *)
(* loop.  A callback runs without interruption between two awaits; each    *)
(* action below is one such uninterrupted stretch of one callback, and the *)
(* position at which a callback is suspended is the task's pc.  A callback *)
(* is over in the model at its last effect: the wait of its final          *)
(* update_brethren changes nothing.                                        *)
(***************************************************************************)
EXTENDS Naturals, Integers, Sequences, FiniteSets, Bags, TLC

(* ------------------------------ bounds -------------------------------- *)
NumUsers == 3
MaxTasks == 2
MaxOps == 3
MaxQueues == 2
MaxPublish == 2
MaxPlies == 7
MatchPlies == 2
LatePlies == 4
MaxSlides == 1
LateSlides == 2
MaxGuesses == 3
MaxTries == 2
NumEdge == 1

(* --------------------------- program values --------------------------- *)
\* Python's None, for Optional[int] caps: no length ever equals it.
None == -1
\* host=None of LobbyView: the public queue of a game.
NoHost == 0
Users == 1..NumUsers
\* the user who hosts the private lobby of the model
PrivHost == 1
Hosts == {NoHost, PrivHost}

\* GameProperties subclasses: the class attributes min_players, max_players,
\* max_spectators of each class that exists once its module is imported.
\* Connect4 sets max_spectators = None and inherits the other two, GoFish
\* inherits all three.  The class statement of dummy_game.DummyGame passes no
\* game_id to __init_subclass__ and raises TypeError, so no such class exists.
Connect4 == [name |-> "connect4", min_players |-> 2, max_players |-> 2, max_spectators |-> None]
GoFish == [name |-> "go_fish", min_players |-> 2, max_players |-> 2, max_spectators |-> 0]
GameProperties == {Connect4, GoFish}

\* Update enum
PLAYERS == "PLAYERS"
STARTED == "STARTED"
Update == {PLAYERS, STARTED}

(* ------------------------- ordered dict helpers ----------------------- *)
\* keys of a dict[User, Message] in insertion order are a sequence of users
Keys(d) == {d[i] : i \in 1..Len(d)}

\* players[ctx.user] = msg : a new key goes last, an existing key keeps its place
DictSet(d, u) == IF u \in Keys(d) THEN d ELSE Append(d, u)

\* del players[ctx.user] (the caller checks for KeyError)
DictDel(d, u) == SelectSeq(d, LAMBDA x : x # u)

Min(a, b) == IF a < b THEN a ELSE b

\* KeysToPop taking the newest keys first, as dict.popitem() would
KeysToPop_Newest(n, d) == [i \in 1..Min(n, Len(d)) |-> d[Len(d) + 1 - i]]

\* dict_pop_n: keys_to_pop = list(d.keys())[:n]
KeysToPop(n, d) == SubSeq(d, 1, Min(n, Len(d)))

\* dict_pop_n: what is left in d after the pops
AfterPop(n, d) == SubSeq(d, Min(n, Len(d)) + 1, Len(d))

(* ------------------------------- state -------------------------------- *)
VARIABLES
    game,           \* the GameProperties class the lobby is for
    players,        \* Lobby.players: per host, the dict objects made so far
    phas,           \* host in Lobby.players (the last dict object is live)
    spectators,     \* Lobby.spectators, as players
    shas,           \* host in Lobby.spectators
    uhas,           \* host in Lobby.updates
    timeout_task,   \* Lobby.timeout_task: "none", "pending" or "fired"
    opened,         \* hosts for which a LobbyView has been created
    tasks,          \* bag of the running callbacks, each suspended at an await
    games,          \* the games constructed so far, in order
    reply,          \* what the step just taken answered or raised, if anything
    event,          \* what the step just taken put on a party's updates, if anything
    member,         \* history: joined or spectating, not left, not popped
    nops,           \* number of button callbacks begun and of views opened so far
    queues,         \* BroadcastQueue.queues: the registered queue objects
    items,          \* contents of every asyncio.Queue object made
    nqueues,        \* number of queue objects made
    received,       \* history: what each consumer got from queue.get()
    published,      \* history: every item put, with the queues it was put to
    putting,        \* the tasks of BroadcastQueue.put that have not finished, oldest first
    sess,           \* the update_state tasks made, each with its asyncio.Queue
    pubs,           \* bag of the callbacks inside start_game or update_brethren
    c4,             \* a Connect4Engine: board and next_turn
    ret,            \* what the last call of an engine's update returned: <<>> for None
    nmoves,         \* number of update calls made on the engine
    e2048,          \* the Engine2048 of a game of 2048
    aview,          \* the ArrowView of that game: finished, and the calls inside conclude
    numguess,       \* the NumguessEngine of a game of number guessing
    msess,          \* the consume_events task of every Connect4View of the match
    mevent,         \* what the step just taken put on the match's events, if anything
    shown           \* per view of the match, the select of the message as displayed

lobbyVars == <<game, players, phas, spectators, shas, uhas, timeout_task,
               opened, tasks, games, reply, event, member, nops>>
bqVars == <<queues, items, nqueues, received, published, putting>>
sessVars == <<sess, pubs>>
engVars == <<c4, ret, nmoves, e2048, aview, numguess>>
matchVars == <<msess, mevent, shown>>
vars == <<game, players, phas, spectators, shas, uhas, timeout_task,
          opened, tasks, games, reply, event, member, nops,
          queues, items, nqueues, received, published, putting,
          sess, pubs, c4, ret, nmoves, e2048, aview, numguess,
          msess, mevent, shown>>

Idle == [op |-> "idle", pc |-> "idle", user |-> 0, host |-> NoHost,
         which |-> "none", ref |-> 0, pp |-> <<>>, ps |-> <<>>]
NoReply == [op |-> "none", user |-> 0, host |-> NoHost, res |-> "none"]
NoEvent == [host |-> NoHost, msg |-> "none"]

\* The registry as one record, so that the synchronous part of a callback
\* composes as a function of it.
Reg == [players |-> players, phas |-> phas, spectators |-> spectators,
        shas |-> shas, uhas |-> uhas, timeout_task |-> timeout_task]

(* ------------------------ defaultdict accesses ------------------------ *)
\* self.players: lobbies[name].players[host], a defaultdict(dict) lookup that
\* makes a new empty dict when the host has none
TouchPlayers(r, h) ==
    IF r.phas[h] THEN r
    ELSE [r EXCEPT !.players[h] = Append(@, <<>>), !.phas[h] = TRUE]

\* self.spectators
TouchSpectators(r, h) ==
    IF r.shas[h] THEN r
    ELSE [r EXCEPT !.spectators[h] = Append(@, <<>>), !.shas[h] = TRUE]

\* self.updates: defaultdict(BroadcastQueue) lookup
TouchUpdates(r, h) == [r EXCEPT !.uhas[h] = TRUE]

\* the dict self.players evaluates to (after the lookup)
CurPlayers(r, h) == r.players[h][Len(r.players[h])]
CurSpectators(r, h) == r.spectators[h][Len(r.spectators[h])]

\* the queued players and spectators of a party as the registry holds them
Queued(h) == IF phas[h] THEN players[h][Len(players[h])] ELSE <<>>
QueuedSpectators(h) == IF shas[h] THEN spectators[h][Len(spectators[h])] ELSE <<>>

(* ----------------------------- start_game ----------------------------- *)
\* start_game, lines 250-252: cancel the pending timeout, if any
CancelTimeout(r) ==
    IF r.timeout_task # "none" THEN [r EXCEPT !.timeout_task = "none"] ELSE r

\* start_game, lines 257-269: pop the players and the spectators, then put
\* STARTED with update_brethren (where the coroutine suspends)
PopParticipants(r, h) ==
    LET r1 == TouchPlayers(r, h)
        d == CurPlayers(r1, h)
        pp == IF game.max_players = None THEN d ELSE KeysToPop(game.max_players, d)
        dleft == IF game.max_players = None THEN <<>> ELSE AfterPop(game.max_players, d)
        r2 == [r1 EXCEPT !.players[h][Len(r1.players[h])] = dleft]
        r3 == TouchSpectators(r2, h)
        e == CurSpectators(r3, h)
        ps == IF game.max_spectators = None THEN e ELSE KeysToPop(game.max_spectators, e)
        eleft == IF game.max_spectators = None THEN <<>> ELSE AfterPop(game.max_spectators, e)
        r4 == [r3 EXCEPT !.spectators[h][Len(r3.spectators[h])] = eleft]
    IN [reg |-> TouchUpdates(r4, h), pc |-> "sg_started", pp |-> pp, ps |-> ps,
        put |-> STARTED]

\* start_game from its first line to its first await: a private lobby first
\* awaits update_brethren(PLAYERS), the public queue pops at once
StartGame(r, h) ==
    LET r1 == CancelTimeout(r)
    IN IF h # NoHost
       THEN [reg |-> TouchUpdates(r1, h), pc |-> "sg_players", pp |-> <<>>, ps |-> <<>>,
             put |-> PLAYERS]
       ELSE PopParticipants(r1, h)

\* schedule_start: nothing if a handle is stored, else loop.call_later
ScheduleStart(r) ==
    IF r.timeout_task # "none" THEN r ELSE [r EXCEPT !.timeout_task = "pending"]

\* join, lines 390-395: the min_players trigger, then update_brethren(PLAYERS)
JoinTail(r, h) ==
    LET r1 == TouchPlayers(r, h)
        r2 == IF Len(CurPlayers(r1, h)) = game.min_players /\ h = NoHost
              THEN ScheduleStart(r1) ELSE r1
    IN TouchUpdates(r2, h)

\* JoinStartsNow that does not look at the spectator cap
JoinStartsNow_AnyCap(r, h) == Len(CurPlayers(r, h)) = game.max_players

\* join, lines 377-387: does the join that just added start the game now
JoinStartsNow(r, h) ==
    /\ Len(CurPlayers(r, h)) = game.max_players
    /\ \/ game.max_spectators = 0
       \/ /\ game.max_spectators # None
          /\ Len(CurSpectators(TouchSpectators(r, h), h)) >= game.max_spectators

\* join, line 386: len(self.spectators) is evaluated only on that branch
JoinTouches(r, h) ==
    IF /\ Len(CurPlayers(r, h)) = game.max_players
       /\ game.max_spectators # 0
       /\ game.max_spectators # None
    THEN TouchSpectators(r, h) ELSE r

\* RemovePrivate that leaves the host's updates entry in place
RemovePrivate_KeepsUpdates(r, h) ==
    IF ~r.phas[h] THEN [reg |-> r, ok |-> FALSE]
    ELSE LET r1 == [r EXCEPT !.phas[h] = FALSE]
         IN IF ~r1.shas[h] THEN [reg |-> r1, ok |-> FALSE]
            ELSE [reg |-> [r1 EXCEPT !.shas[h] = FALSE], ok |-> TRUE]

\* Lobby.remove_private: del d[host] for players, spectators, updates in
\* turn; the first missing key raises KeyError and ends the loop
RemovePrivate(r, h) ==
    IF ~r.phas[h] THEN [reg |-> r, ok |-> FALSE]
    ELSE LET r1 == [r EXCEPT !.phas[h] = FALSE]
         IN IF ~r1.shas[h] THEN [reg |-> r1, ok |-> FALSE]
            ELSE LET r2 == [r1 EXCEPT !.shas[h] = FALSE]
                 IN IF ~r2.uhas[h] THEN [reg |-> r2, ok |-> FALSE]
                    ELSE [reg |-> [r2 EXCEPT !.uhas[h] = FALSE], ok |-> TRUE]

(* --------------------------- task bookkeeping -------------------------- *)
Active == BagToSet(tasks)
CanStart == BagCardinality(tasks) < MaxTasks /\ nops < MaxOps

\* the bag of tasks when a callback is created, moves on, or is over
Spawn(t) == tasks (+) SetToBag({t})
Move(t, t2) == (tasks (-) SetToBag({t})) (+) SetToBag({t2})
Over(t) == tasks (-) SetToBag({t})

\* dict objects a suspended coroutine still holds (the players argument of
\* make_message and unmake_message)
Held(ts, h, kind) ==
    {t.ref : t \in {x \in BagToSet(ts) : x.host = h /\ x.which = kind}}

\* A dict object deleted from the registry lives on only while a coroutine
\* holds it; afterwards it is unreachable and its contents are forgotten.
Collect(objs, has, ts, h, kind) ==
    LET held == Held(ts, h, kind)
        blank == [i \in 1..Len(objs) |->
                    IF (i = Len(objs) /\ has) \/ i \in held THEN objs[i] ELSE <<>>]
    IN IF held = {} THEN (IF has THEN <<objs[Len(objs)]>> ELSE <<>>)
       ELSE blank

\* the registry after a step that leaves the tasks as ts
SetReg(r, ts) ==
    /\ players' = [h \in Hosts |-> Collect(r.players[h], r.phas[h], ts, h, "players")]
    /\ phas' = r.phas
    /\ spectators' = [h \in Hosts |-> Collect(r.spectators[h], r.shas[h], ts, h, "spectators")]
    /\ shas' = r.shas
    /\ uhas' = r.uhas
    /\ timeout_task' = r.timeout_task
    /\ tasks' = ts

Reply(t, res) == [op |-> t.op, user |-> t.user, host |-> t.host, res |-> res]
Suspended(t, pc) == [t EXCEPT !.pc = pc, !.which = "none", !.ref = 0]

\* update_brethren(msg), line 288: self.updates.put_nowait(msg)
Puts(h, msg) == [host |-> h, msg |-> msg]

\* the members a pop takes out of the party
Popped(h, sg) == {<<x, h, "players">> : x \in Keys(sg.pp)}
                 \cup {<<x, h, "spectators">> : x \in Keys(sg.ps)}

KeepBQ == UNCHANGED bqVars /\ UNCHANGED sessVars /\ UNCHANGED engVars /\ UNCHANGED matchVars

(* ------------------------------ LobbyView ------------------------------ *)
\* LobbyView.__post_init__: the display_players task reads self.players (and
\* self.spectators if spectators are allowed), the update_state task enters
\* self.updates.consume()
LobbyViewInit(h) ==
    /\ LET r1 == TouchPlayers(Reg, h)
           r2 == IF game.max_spectators # 0 THEN TouchSpectators(r1, h) ELSE r1
       IN SetReg(TouchUpdates(r2, h), tasks)
    /\ opened' = [opened EXCEPT ![h] = TRUE]
    /\ UNCHANGED <<game, games, member, nops>>
    /\ reply' = NoReply
    /\ event' = NoEvent
    /\ KeepBQ

(* -------------------------------- join --------------------------------- *)
\* JoinFull rejecting only above the cap
JoinFull_AboveCap(r, h) ==
    /\ h # NoHost
    /\ game.max_players # None
    /\ Len(CurPlayers(r, h)) > game.max_players

\* join, lines 361-365: the fullness test, made for hosted lobbies only
JoinFull(r, h) ==
    /\ h # NoHost
    /\ game.max_players # None
    /\ Len(CurPlayers(r, h)) >= game.max_players

\* JoinPresent looking at the spectators instead of the players
JoinPresent_InSpectators(r, h, u) ==
    u \in Keys(CurSpectators(TouchSpectators(r, h), h))

\* join, line 369: ctx.user in self.players
JoinPresent(r, h, u) == u \in Keys(CurPlayers(r, h))

\* join, lines 361-375: the two rejections, else suspend in make_message
\* holding the dict self.players evaluated to
JoinBegin(u, h) ==
    /\ opened[h] /\ CanStart
    /\ LET r == TouchPlayers(Reg, h)
           t == [Idle EXCEPT !.op = "join", !.user = u, !.host = h]
       IN IF JoinFull(r, h)
          THEN /\ SetReg(r, tasks)
               /\ reply' = Reply(t, "LobbyFull")
               /\ nops' = nops + 1
          ELSE IF JoinPresent(r, h, u)
          THEN /\ SetReg(r, tasks)
               /\ reply' = Reply(t, "AlreadyQueued")
               /\ nops' = nops + 1
          ELSE /\ SetReg(r, Spawn([t EXCEPT !.pc = "make_message", !.which = "players",
                               !.ref = Len(r.players[h])]))
               /\ reply' = NoReply
               /\ nops' = nops + 1
    /\ UNCHANGED <<game, opened, games, member>>
    /\ event' = NoEvent
    /\ KeepBQ

\* join, make_message line 323 to the next await: the user goes into the
\* dict that was passed, then the triggers are evaluated on self.players
JoinAdd(t) ==
    LET h == t.host
        r1 == [Reg EXCEPT !.players[h][t.ref] = DictSet(@, t.user)]
        r2 == TouchPlayers(r1, h)
        r3 == JoinTouches(r2, h)
        sg == StartGame(r3, h)
    IN /\ t.op = "join" /\ t.pc = "make_message"
       /\ IF JoinStartsNow(r2, h)
          THEN /\ SetReg(sg.reg, Move(t, [Suspended(t, sg.pc) EXCEPT !.pp = sg.pp, !.ps = sg.ps]))
               /\ member' = (member \cup {<<t.user, h, "players">>})
                            \ Popped(h, sg)
               /\ event' = Puts(h, sg.put)
          ELSE /\ SetReg(JoinTail(r3, h), Over(t))
               /\ member' = member \cup {<<t.user, h, "players">>}
               /\ event' = Puts(h, PLAYERS)
       /\ UNCHANGED <<game, opened, games, nops>>
       /\ reply' = NoReply
       /\ KeepBQ

(* ------------------------------ spectate ------------------------------- *)
\* spectate, lines 431-435: the fullness test; the spectators are looked up
\* only for a hosted lobby with a cap
SpectateFull(r, h) ==
    \/ /\ h # NoHost /\ game.max_spectators # None
       /\ Len(CurSpectators(r, h)) >= game.max_spectators
    \/ game.max_spectators = 0

\* spectate, lines 431-445
SpectateBegin(u, h) ==
    /\ opened[h] /\ CanStart
    /\ LET capped == h # NoHost /\ game.max_spectators # None
           r == IF capped THEN TouchSpectators(Reg, h) ELSE Reg
           r1 == TouchSpectators(r, h)
           t == [Idle EXCEPT !.op = "spectate", !.user = u, !.host = h]
       IN IF SpectateFull(r, h)
          THEN /\ SetReg(r, tasks)
               /\ reply' = Reply(t, "LobbyFull")
               /\ nops' = nops + 1
          ELSE IF u \in Keys(CurSpectators(r1, h))
          THEN /\ SetReg(r1, tasks)
               /\ reply' = Reply(t, "AlreadyQueued")
               /\ nops' = nops + 1
          ELSE /\ SetReg(r1, Spawn([t EXCEPT !.pc = "make_message", !.which = "spectators",
                               !.ref = Len(r1.spectators[h])]))
               /\ reply' = NoReply
               /\ nops' = nops + 1
    /\ UNCHANGED <<game, opened, games, member>>
    /\ event' = NoEvent
    /\ KeepBQ

\* spectate, lines 451-456: start only when the spectator cap is just
\* reached and the players are at their cap
SpectateStartsNow(r, h) ==
    /\ Len(CurSpectators(r, h)) = game.max_spectators
    /\ game.max_players # None
    /\ Len(CurPlayers(TouchPlayers(r, h), h)) >= game.max_players

\* spectate, line 455: len(self.players) is evaluated only on that branch
SpectateTouches(r, h) ==
    IF Len(CurSpectators(r, h)) = game.max_spectators /\ game.max_players # None
    THEN TouchPlayers(r, h) ELSE r

\* spectate, make_message line 323 to the next await
SpectateAdd(t) ==
    LET h == t.host
        r1 == [Reg EXCEPT !.spectators[h][t.ref] = DictSet(@, t.user)]
        r2 == TouchSpectators(r1, h)
        r3 == SpectateTouches(r2, h)
        sg == StartGame(r3, h)
    IN /\ t.op = "spectate" /\ t.pc = "make_message"
       /\ IF SpectateStartsNow(r2, h)
          THEN /\ SetReg(sg.reg, Move(t, [Suspended(t, sg.pc) EXCEPT !.pp = sg.pp, !.ps = sg.ps]))
               /\ member' = (member \cup {<<t.user, h, "spectators">>})
                            \ Popped(h, sg)
               /\ event' = Puts(h, sg.put)
          ELSE /\ SetReg(TouchUpdates(r3, h), Over(t))
               /\ member' = member \cup {<<t.user, h, "spectators">>}
               /\ event' = Puts(h, PLAYERS)
       /\ UNCHANGED <<game, opened, games, nops>>
       /\ reply' = NoReply
       /\ KeepBQ

(* -------------------------------- leave -------------------------------- *)
\* leave, lines 400-416: find the map that holds the user, else reject;
\* unmake_message then suspends holding that map
LeaveBegin(u, h) ==
    /\ opened[h] /\ CanStart
    /\ LET r == TouchPlayers(Reg, h)
           r1 == TouchSpectators(r, h)
           t == [Idle EXCEPT !.op = "leave", !.user = u, !.host = h]
       IN IF u \in Keys(CurPlayers(r, h))
          THEN /\ SetReg(r, Spawn([t EXCEPT !.pc = "unmake_message", !.which = "players",
                               !.ref = Len(r.players[h])]))
               /\ reply' = NoReply
               /\ nops' = nops + 1
          ELSE IF u \in Keys(CurSpectators(r1, h))
          THEN /\ SetReg(r1, Spawn([t EXCEPT !.pc = "unmake_message", !.which = "spectators",
                               !.ref = Len(r1.spectators[h])]))
               /\ reply' = NoReply
               /\ nops' = nops + 1
          ELSE /\ SetReg(r1, tasks)
               /\ reply' = Reply(t, "NotQueued")
               /\ nops' = nops + 1
    /\ UNCHANGED <<game, opened, games, member>>
    /\ event' = NoEvent
    /\ KeepBQ

\* LeaveCancel comparing the count from before the removal
LeaveCancel_StaleCount(r, h) ==
    LET r1 == TouchPlayers(r, h)
    IN IF Len(CurPlayers(r1, h)) + 1 < game.min_players /\ r1.timeout_task # "none"
       THEN [r1 EXCEPT !.timeout_task = "none"] ELSE r1

\* leave, lines 418-420: cancel the timeout below min_players
LeaveCancel(r, h) ==
    LET r1 == TouchPlayers(r, h)
    IN IF Len(CurPlayers(r1, h)) < game.min_players /\ r1.timeout_task # "none"
       THEN [r1 EXCEPT !.timeout_task = "none"] ELSE r1

\* leave, unmake_message line 354 to the await of send_message: del on the
\* dict that was passed raises KeyError when the user is no longer in it
LeaveDel(t) ==
    LET h == t.host
        d == IF t.which = "players" THEN players[h][t.ref] ELSE spectators[h][t.ref]
        r1 == IF t.which = "players"
              THEN [Reg EXCEPT !.players[h][t.ref] = DictDel(@, t.user)]
              ELSE [Reg EXCEPT !.spectators[h][t.ref] = DictDel(@, t.user)]
    IN /\ t.op = "leave" /\ t.pc = "unmake_message"
       /\ IF t.user \notin Keys(d)
          THEN /\ SetReg(Reg, Over(t))
               /\ reply' = Reply(t, "KeyError")
               /\ member' = member
          ELSE /\ SetReg(LeaveCancel(r1, h), Move(t, Suspended(t, "respond")))
               /\ reply' = NoReply
               /\ member' = member \ {<<t.user, h, t.which>>}
       /\ UNCHANGED <<game, opened, games, nops>>
       /\ event' = NoEvent
       /\ KeepBQ

\* leave, lines 421-426: send_message returned, update_brethren(PLAYERS)
LeaveRespond(t) ==
    /\ t.op = "leave" /\ t.pc = "respond"
    /\ SetReg(TouchUpdates(Reg, t.host), Over(t))
    /\ UNCHANGED <<game, opened, games, member, nops>>
    /\ reply' = NoReply
    /\ event' = Puts(t.host, PLAYERS)
    /\ KeepBQ

(* -------------------------------- start -------------------------------- *)
\* TooFewPlayers rejecting a lobby that holds exactly min_players
TooFewPlayers_AtMin(r, h) == Len(CurPlayers(r, h)) <= game.min_players

\* start, line 466: len(self.players) < self.game.min_players
TooFewPlayers(r, h) == Len(CurPlayers(r, h)) < game.min_players

\* start, lines 462-476: the two rejections, else await send_message
StartBegin(u, h) ==
    /\ opened[h] /\ CanStart
    /\ LET r == TouchPlayers(Reg, h)
           t == [Idle EXCEPT !.op = "start", !.user = u, !.host = h]
       IN IF u # h
          THEN /\ SetReg(Reg, tasks)
               /\ reply' = Reply(t, "NotHost")
               /\ nops' = nops + 1
          ELSE IF TooFewPlayers(r, h)
          THEN /\ SetReg(r, tasks)
               /\ reply' = Reply(t, "TooFewPlayers")
               /\ nops' = nops + 1
          ELSE /\ SetReg(r, Spawn([t EXCEPT !.pc = "respond"]))
               /\ reply' = NoReply
               /\ nops' = nops + 1
    /\ UNCHANGED <<game, opened, games, member>>
    /\ event' = NoEvent
    /\ KeepBQ

(* ----------------------------- start timer ----------------------------- *)
\* the call_later callback of schedule_start runs: loop.create_task makes
\* the start_game task, which has not run yet; the handle stays stored
TimerFire ==
    /\ timeout_task = "pending"
    /\ BagCardinality(tasks) < MaxTasks
    /\ SetReg([Reg EXCEPT !.timeout_task = "fired"],
              Spawn([Idle EXCEPT !.op = "timer", !.pc = "created"]))
    /\ UNCHANGED <<game, opened, games, member, nops>>
    /\ reply' = NoReply
    /\ event' = NoEvent
    /\ KeepBQ

(* ------------------------ start_game, step by step ---------------------- *)
\* start_game is entered by start after its send_message and by the timer's
\* task on its first run
StartGameEntry(t) ==
    LET sg == StartGame(Reg, t.host)
    IN /\ \/ t.op = "start" /\ t.pc = "respond"
          \/ t.op = "timer" /\ t.pc = "created"
       /\ SetReg(sg.reg, Move(t, [Suspended(t, sg.pc) EXCEPT !.pp = sg.pp, !.ps = sg.ps]))
       /\ member' = member \ Popped(t.host, sg)
       /\ UNCHANGED <<game, opened, games, nops>>
       /\ reply' = NoReply
       /\ event' = Puts(t.host, sg.put)
       /\ KeepBQ

\* start_game of a private lobby, back from update_brethren(PLAYERS)
StartGamePop(t) ==
    LET sg == PopParticipants(Reg, t.host)
    IN /\ t.pc = "sg_players"
       /\ SetReg(sg.reg, Move(t, [Suspended(t, sg.pc) EXCEPT !.pp = sg.pp, !.ps = sg.ps]))
       /\ member' = member \ Popped(t.host, sg)
       /\ UNCHANGED <<game, opened, games, nops>>
       /\ reply' = NoReply
       /\ event' = Puts(t.host, sg.put)
       /\ KeepBQ

\* GameEngine (metaclass ABCMeta): the methods marked @abstractmethod
AbstractMethods == {"__init__", "update", "won"}

\* the methods the engine classes define
Connect4EngineMethods == {"after", "__init__", "update", "ended", "won", "legal_columns"}
GoFishEngineMethods ==
    {"next_player", "__init__", "advance_turn", "skip_unplayable", "check_books",
     "timeout", "update", "ended", "book_counts"}

\* calling a class whose metaclass is ABCMeta: TypeError while an abstract
\* method is left without a definition
Instantiate(methods) == IF AbstractMethods \subseteq methods THEN "none" ELSE "TypeError"

\* the outcome of a constructor call: the exception it raises, if any, and
\* the viewers that got a session (a view with its tasks), in order
Built(viewers) == [raised |-> "none", views |-> viewers]
Raised(exc) == [raised |-> exc, views |-> <<>>]

\* Connect4View.__init__, lines 165-166: the two-target unpacking of
\* players.items() raises ValueError unless there are exactly two players
Connect4ViewInit(pp) == IF Len(pp) = 2 THEN "none" ELSE "ValueError"

\* Connect4.__init__: the engine, the queue, then one view per viewer of
\* chain(players, spectators); the first view that raises ends the loop
Connect4Init(pp, ps) ==
    IF Instantiate(Connect4EngineMethods) # "none"
    THEN Raised(Instantiate(Connect4EngineMethods))
    ELSE IF pp \o ps # <<>> /\ Connect4ViewInit(pp) # "none"
    THEN Raised(Connect4ViewInit(pp))
    ELSE Built(pp \o ps)

\* GoFish.__init__: the engine first, then one view per player
GoFishInit(pp, ps) ==
    IF Instantiate(GoFishEngineMethods) # "none"
    THEN Raised(Instantiate(GoFishEngineMethods))
    ELSE Built(pp)

\* self.game(players=players, spectators=spectators), the class called being
\* the lobby's game
Construct(g, pp, ps) ==
    CASE g.name = "connect4" -> Connect4Init(pp, ps)
      [] g.name = "go_fish" -> GoFishInit(pp, ps)

\* add_game of protocol.cmd, called by the setup of connect4 and of go_fish:
\* the games the lobby command offers
Registry == {Connect4, GoFish}

\* the engine class the constructor of a registered game instantiates
EngineMethods(g) ==
    IF g.name = "connect4" THEN Connect4EngineMethods ELSE GoFishEngineMethods

\* start_game, line 274: the call and its outcome
NewGame(t) ==
    LET made == Construct(game, t.pp, t.ps)
    IN [host |-> t.host, by |-> t.op, players |-> t.pp, spectators |-> t.ps,
        raised |-> made.raised, views |-> made.views]

\* start_game, lines 270-274, back from update_brethren(STARTED): delete the
\* private lobby, construct the game, and return into the caller up to its
\* next await
StartGameFinish(t) ==
    LET h == t.host
        rp == IF h # NoHost THEN RemovePrivate(Reg, h) ELSE [reg |-> Reg, ok |-> TRUE]
    IN /\ t.pc = "sg_started"
       /\ IF ~rp.ok
          THEN /\ SetReg(rp.reg, Over(t))
               /\ reply' = Reply(t, "KeyError")
               /\ event' = NoEvent
               /\ games' = games
          ELSE /\ games' = Append(games, NewGame(t))
               /\ IF NewGame(t).raised # "none"
                  THEN \* the exception leaves start_game and its caller
                       /\ SetReg(rp.reg, Over(t))
                       /\ reply' = Reply(t, NewGame(t).raised)
                       /\ event' = NoEvent
                  ELSE IF t.op = "join"
                  THEN /\ SetReg(JoinTail(rp.reg, h), Over(t))
                       /\ reply' = NoReply
                       /\ event' = Puts(h, PLAYERS)
                  ELSE IF t.op = "spectate"
                  THEN /\ SetReg(TouchUpdates(rp.reg, h), Over(t))
                       /\ reply' = NoReply
                       /\ event' = Puts(h, PLAYERS)
                  ELSE /\ SetReg(rp.reg, Over(t))
                       /\ reply' = Reply(t, "ok")
                       /\ event' = NoEvent
       /\ UNCHANGED <<game, opened, member, nops>>
       /\ KeepBQ

(* ----------------------------- specification ---------------------------- *)
InitLobby ==
    /\ game \in GameProperties
    /\ players = [h \in Hosts |-> <<>>]
    /\ phas = [h \in Hosts |-> FALSE]
    /\ spectators = [h \in Hosts |-> <<>>]
    /\ shas = [h \in Hosts |-> FALSE]
    /\ uhas = [h \in Hosts |-> FALSE]
    /\ timeout_task = "none"
    /\ opened = [h \in Hosts |-> FALSE]
    /\ tasks = EmptyBag
    /\ games = <<>>
    /\ reply = NoReply
    /\ event = NoEvent
    /\ member = {}
    /\ nops = 0

InitBQ ==
    /\ queues = {}
    /\ items = [q \in 1..MaxQueues |-> <<>>]
    /\ nqueues = 0
    /\ received = [q \in 1..MaxQueues |-> <<>>]
    /\ published = <<>>
    /\ putting = <<>>

\* no LobbyView yet: no update_state task, no BroadcastQueue
InitSessions ==
    /\ sess = <<>>
    /\ pubs = EmptyBag

\* no game engine has been constructed
NoEngine == [kind |-> "none"]
NoReturn == <<>>
\* an ArrowView as __init__ leaves it: not finished, no call of update_state
\* suspended on the way to stop()
NewArrowView == [finished |-> FALSE, concluding |-> 0]
NoMatchEvent == [sender |-> 0, event |-> "none"]
InitNoEngine ==
    /\ c4 = NoEngine
    /\ ret = NoReturn
    /\ nmoves = 0
    /\ e2048 = NoEngine
    /\ aview = NewArrowView
    /\ numguess = NoEngine
    /\ msess = <<>>
    /\ mevent = NoMatchEvent
    /\ shown = <<>>

Init == InitLobby /\ InitBQ /\ InitSessions /\ InitNoEngine

Next ==
    \/ \E h \in Hosts : LobbyViewInit(h)
    \/ \E u \in Users, h \in Hosts : JoinBegin(u, h)
    \/ \E t \in Active : JoinAdd(t)
    \/ \E u \in Users, h \in Hosts : SpectateBegin(u, h)
    \/ \E t \in Active : SpectateAdd(t)
    \/ \E u \in Users, h \in Hosts : LeaveBegin(u, h)
    \/ \E t \in Active : LeaveDel(t)
    \/ \E t \in Active : LeaveRespond(t)
    \/ \E u \in Users, h \in Hosts : StartBegin(u, h)
    \/ TimerFire
    \/ \E t \in Active : StartGameEntry(t)
    \/ \E t \in Active : StartGamePop(t)
    \/ \E t \in Active : StartGameFinish(t)

Spec == Init /\ [][Next]_vars

\* The registry once users 1 and 2 have joined the public queue of a game
\* that waits there for its timer: join has reached min_players with no host
\* and schedule_start has stored the handle (lines 389-394, 276-284).
WaitsForTimer(g) == g.max_players # g.min_players \/ g.max_spectators # 0
\* the public queue has no cap on joins (line 361 tests the host first): with
\* spectators allowed and none there, two more users may have joined since
QueuedBefore(g) ==
    IF g.max_spectators # 0 THEN {<<1, 2>>, <<1, 2, 3, 4>>} ELSE {<<1, 2>>}
InitQueued ==
    /\ game \in {g \in GameProperties : WaitsForTimer(g)}
    /\ \E d \in QueuedBefore(game) :
          /\ players = [h \in Hosts |-> IF h = NoHost THEN <<d>> ELSE <<>>]
          /\ member = {<<u, NoHost, "players">> : u \in Keys(d)}
    /\ phas = [h \in Hosts |-> h = NoHost]
    /\ spectators = [h \in Hosts |->
                        IF h = NoHost /\ game.max_spectators # 0 THEN << <<>> >> ELSE <<>>]
    /\ shas = [h \in Hosts |-> h = NoHost /\ game.max_spectators # 0]
    /\ uhas = [h \in Hosts |-> h = NoHost]
    /\ timeout_task = "pending"
    /\ opened = [h \in Hosts |-> h = NoHost]
    /\ tasks = EmptyBag
    /\ games = <<>>
    /\ reply = NoReply
    /\ event = NoEvent
    /\ nops = 0

InitTimer == InitQueued /\ InitBQ /\ InitSessions /\ InitNoEngine

SpecTimer == InitTimer /\ [][Next]_vars

(* ---------------------------- BroadcastQueue --------------------------- *)
KeepLobby == UNCHANGED lobbyVars /\ UNCHANGED sessVars /\ UNCHANGED engVars /\ UNCHANGED matchVars

\* PutAll putting the item first in each queue instead of last
PutAll_Front(qs, its, e) == [q \in DOMAIN its |-> IF q \in qs THEN <<e>> \o its[q] ELSE its[q]]

\* PutAll putting to every queue object, registered or not
PutAll_Everyone(qs, its, e) == [q \in DOMAIN its |-> Append(its[q], e)]

\* put_nowait's loop: q.put_nowait(item) for every q in self.queues; an
\* asyncio.Queue() is unbounded and FIFO, so the item goes last
PutAll(qs, its, e) == [q \in DOMAIN its |-> IF q \in qs THEN Append(its[q], e) ELSE its[q]]

\* BroadcastQueue.register: a new asyncio.Queue() joins self.queues
Register ==
    /\ nqueues < MaxQueues
    /\ nqueues' = nqueues + 1
    /\ queues' = queues \cup {nqueues + 1}
    /\ items' = [items EXCEPT ![nqueues + 1] = <<>>]
    /\ UNCHANGED <<received, published, putting>>
    /\ KeepLobby

\* BroadcastQueue.deregister, called by the consumer that registered q
Deregister(q) ==
    /\ q \in queues
    /\ queues' = queues \ {q}
    /\ UNCHANGED <<items, nqueues, received, published, putting>>
    /\ KeepLobby

\* room for one more item
CanPut == Len(published) + Len(putting) < MaxPublish

\* BroadcastQueue.put_nowait
PutNowait(e) ==
    /\ CanPut
    /\ items' = PutAll(queues, items, e)
    /\ published' = Append(published, [item |-> e, queues |-> queues])
    /\ UNCHANGED <<queues, nqueues, received, putting>>
    /\ KeepLobby

\* the largest of a set of task numbers
Newest(S) == CHOOSE x \in S : \A y \in S : y <= x

\* the task of a put as create_task makes it: after is the newest task of put
\* that had gathered by then (0 if none); the loop runs what it was handed in
\* the order it was handed, so those tasks deliver before this one runs
NewPut(e) ==
    [item |-> e, pc |-> "created", queues |-> {},
     id |-> Len(published) + Len(putting) + 1,
     after |-> Newest({0} \cup {putting[j].id : j \in {i \in 1..Len(putting) :
                                                    putting[i].pc = "gathered"}}),
     upto |-> 0]

\* asyncio.create_task(bq.put(item)): the task is made and has not run yet
Put(e) ==
    /\ CanPut
    /\ putting' = Append(putting, NewPut(e))
    /\ UNCHANGED <<queues, items, nqueues, received, published>>
    /\ KeepLobby

\* the oldest task of put that has not run yet
FirstCreated ==
    CHOOSE k \in 1..Len(putting) :
        /\ putting[k].pc = "created"
        /\ \A j \in 1..(k - 1) : putting[j].pc = "gathered"

\* BroadcastQueue.put, first run of its task: asyncio.gather makes one task
\* of q.put(item) for every q in self.queues as it is now, and the put waits
\* for them; with no queue registered the put is over at once.  upto is the
\* newest task of put made so far: those run before the tasks made here.
PutGather ==
    /\ \E k \in 1..Len(putting) : putting[k].pc = "created"
    /\ \A j \in 1..Len(putting) : putting[j].id > putting[FirstCreated].after
    /\ IF queues = {}
       THEN /\ putting' = SubSeq(putting, 1, FirstCreated - 1)
                           \o SubSeq(putting, FirstCreated + 1, Len(putting))
            /\ published' = Append(published,
                                   [item |-> putting[FirstCreated].item, queues |-> {}])
       ELSE /\ putting' = [putting EXCEPT ![FirstCreated].pc = "gathered",
                                          ![FirstCreated].queues = queues,
                                          ![FirstCreated].upto = putting[Len(putting)].id]
            /\ published' = published
    /\ UNCHANGED <<queues, items, nqueues, received>>
    /\ KeepLobby

\* the tasks gather made run one after the other with nothing in between:
\* each puts the item on its queue (an asyncio.Queue() never is full),
\* registered or not by now
PutDeliver ==
    /\ putting # <<>> /\ Head(putting).pc = "gathered"
    /\ \A j \in 1..Len(putting) :
          putting[j].id <= Head(putting).upto => putting[j].pc = "gathered"
    /\ items' = PutAll(Head(putting).queues, items, Head(putting).item)
    /\ published' = Append(published, [item |-> Head(putting).item,
                                       queues |-> Head(putting).queues])
    /\ putting' = Tail(putting)
    /\ UNCHANGED <<queues, nqueues, received>>
    /\ KeepLobby

\* a consumer's queue.get() on the queue register() gave it; the consumer
\* keeps the queue object after deregistering
Get(q) ==
    /\ q \in 1..nqueues
    /\ items[q] # <<>>
    /\ received' = [received EXCEPT ![q] = Append(@, Head(items[q]))]
    /\ items' = [items EXCEPT ![q] = Tail(@)]
    /\ UNCHANGED <<queues, nqueues, published, putting>>
    /\ KeepLobby

NextBQ ==
    \/ Register
    \/ \E q \in 1..MaxQueues : Deregister(q)
    \/ \E e \in Update : PutNowait(e)
    \/ \E e \in Update : Put(e)
    \/ PutGather
    \/ PutDeliver
    \/ \E q \in 1..MaxQueues : Get(q)

InitBQOnly == InitBQ /\ InitLobby /\ InitSessions /\ InitNoEngine /\ game = Connect4

SpecBQ == InitBQOnly /\ [][NextBQ]_vars

(* ------------------ update_state and update_brethren ------------------- *)
(* The sessions of a lobby: every LobbyView runs update_state, which       *)
(* consumes the BroadcastQueue of its host, and every callback that has    *)
(* changed the party publishes with update_brethren and waits for the      *)
(* registered queues to be joined.  The membership side of the callbacks   *)
(* is in Spec; here a callback is taken from the point where it calls      *)

\* an update_state task that has not run yet; reg: its queue is in the
\* queues set of the BroadcastQueue it registered on; orphan: that
\* BroadcastQueue is no longer the one Lobby.updates holds for the host
NewSession(h) == [host |-> h, pc |-> "created", inbox |-> <<>>, unfinished |-> 0,
                  reg |-> FALSE, orphan |-> FALSE, deregs |-> 0]

\* inside `with self.updates.consume() as queue`
Live(x) == x.pc \in {"get", "display", "edit"}

Inboxes(ss) == [i \in 1..Len(ss) |-> ss[i].inbox]

\* self.updates.queues: the queues registered on the BroadcastQueue that
\* Lobby.updates holds for the host
Registered(ss, h) ==
    {i \in 1..Len(ss) : ss[i].host = h /\ ss[i].reg /\ ~ss[i].orphan}

\* remove_private, del self.updates[host]: the sessions registered on the
\* deleted BroadcastQueue keep it, the next lookup makes a new one
DelUpdates(ss, h) ==
    [i \in 1..Len(ss) |->
        IF ss[i].host = h /\ ss[i].reg THEN [ss[i] EXCEPT !.orphan = TRUE] ELSE ss[i]]

\* update_brethren, line 288: put_nowait on the BroadcastQueue self.updates
\* evaluates to; line 289: join() gathers q.join() of the queues registered now
UpdateBrethren(r, ss, h, msg) ==
    LET qs == Registered(ss, h)
        inb == PutAll(qs, Inboxes(ss), msg)
    IN [reg |-> TouchUpdates(r, h),
        sess |-> [i \in 1..Len(ss) |->
                    [ss[i] EXCEPT !.inbox = inb[i],
                                  !.unfinished = IF i \in qs THEN @ + 1 ELSE @]],
        waits |-> qs]

\* queue.task_done()
TaskDone(ss, i) == [ss EXCEPT ![i].unfinished = @ - 1]

\* asyncio.Queue.join returns once the queue's unfinished count reaches zero
Wake(ps, ss, i) ==
    IF ss[i].unfinished = 0
    THEN BagOfAll(LAMBDA p : [p EXCEPT !.waits = @ \ {i}], ps)
    ELSE ps

\* consume() leaving its with block only when no CancelledError is in flight
ConsumeExit_NotOnCancel(ss, i, how) ==
    IF how = "cancelled" THEN [ss EXCEPT ![i].pc = how, ![i].inbox = <<>>]
    ELSE [ss EXCEPT ![i].pc = how, ![i].inbox = <<>>, ![i].reg = FALSE,
                    ![i].deregs = @ + 1]

\* consume(), lines 126-133: whatever ends the with block, the finally clause
\* runs self.deregister(q); the queue and what it still holds are dropped
ConsumeExit(ss, i, how) ==
    [ss EXCEPT ![i].pc = how, ![i].inbox = <<>>, ![i].reg = FALSE,
               ![i].deregs = @ + 1]

\* display_players, lines 196-202: self.players and, if spectators are
\* allowed, self.spectators are looked up
DisplayPlayers(r, h) ==
    LET r1 == TouchPlayers(r, h)
    IN IF game.max_spectators # 0 THEN TouchSpectators(r1, h) ELSE r1

\* update_state, lines 233-242: what a session does with a message
Handler(h, msg) == IF msg = STARTED /\ h # NoHost THEN "edit" ELSE "display"

KeepRest == UNCHANGED <<game, member, nops>> /\ UNCHANGED bqVars /\ UNCHANGED engVars /\ UNCHANGED matchVars

\* LobbyView.__post_init__: the display_players task and the update_state
\* task are created
OpenView(h) ==
    /\ Len(sess) < MaxQueues /\ nops < MaxOps
    /\ SetReg(DisplayPlayers(Reg, h), tasks)
    /\ sess' = Append(sess, NewSession(h))
    /\ opened' = [opened EXCEPT ![h] = TRUE]
    /\ nops' = nops + 1
    /\ UNCHANGED <<pubs, games, game, member>> /\ UNCHANGED bqVars /\ UNCHANGED engVars /\ UNCHANGED matchVars
    /\ reply' = NoReply /\ event' = NoEvent

\* update_state, line 229: the task runs and registers its queue
SessionStart(i) ==
    /\ sess[i].pc = "created"
    /\ SetReg(TouchUpdates(Reg, sess[i].host), tasks)
    /\ sess' = [sess EXCEPT ![i].reg = TRUE, ![i].pc = "get"]
    /\ UNCHANGED <<opened, pubs, games>>
    /\ reply' = NoReply /\ event' = NoEvent
    /\ KeepRest

\* update_state, lines 231-242: queue.get() returns and the handler runs up
\* to its await
SessionGet(i) ==
    LET h == sess[i].host
        next == Handler(h, Head(sess[i].inbox))
    IN /\ sess[i].pc = "get" /\ sess[i].inbox # <<>>
       /\ SetReg(IF next = "display" THEN DisplayPlayers(Reg, h) ELSE Reg, tasks)
       /\ sess' = [sess EXCEPT ![i].inbox = Tail(@), ![i].pc = next]
       /\ UNCHANGED <<opened, pubs, games>>
       /\ reply' = NoReply /\ event' = NoEvent
       /\ KeepRest

\* update_state, line 244: display_players returned, task_done, next get
SessionHandled(i) ==
    LET ss == TaskDone([sess EXCEPT ![i].pc = "get"], i)
    IN /\ sess[i].pc = "display"
       /\ sess' = ss
       /\ pubs' = Wake(pubs, ss, i)
       /\ SetReg(Reg, tasks)
       /\ UNCHANGED <<opened, games>>
       /\ reply' = NoReply /\ event' = NoEvent
       /\ KeepRest

\* a session leaves its with block: task_done if a handler was running, then
\* consume() deregisters
SessionExit(i, how) ==
    LET ss == ConsumeExit(IF sess[i].pc = "get" THEN sess ELSE TaskDone(sess, i), i, how)
    IN /\ sess' = ss
       /\ pubs' = Wake(pubs, ss, i)
       /\ SetReg(Reg, tasks)
       /\ UNCHANGED <<opened, games>>
       /\ reply' = NoReply /\ event' = NoEvent
       /\ KeepRest

\* update_state, lines 237-239: message.edit returned, self.stop(), return
SessionStopped(i) == sess[i].pc = "edit" /\ SessionExit(i, "returned")

\* an exception of one handler ending every session of the lobby
SessionRaise_AbortsAll(i) ==
    /\ sess[i].pc \in {"display", "edit"}
    /\ sess' = [j \in 1..Len(sess) |->
                  IF Live(sess[j])
                  THEN [sess[j] EXCEPT !.pc = "raised", !.inbox = <<>>,
                                       !.reg = FALSE, !.unfinished = 0]
                  ELSE sess[j]]
    /\ pubs' = BagOfAll(LAMBDA p : [p EXCEPT !.waits = {}], pubs)
    /\ SetReg(Reg, tasks)
    /\ UNCHANGED <<opened, games>>
    /\ reply' = NoReply /\ event' = NoEvent
    /\ KeepRest

\* message.edit raises in a handler (display_players or line 237)
SessionRaise(i) == sess[i].pc \in {"display", "edit"} /\ SessionExit(i, "raised")

\* LobbyView.stop or __del__: updater_task.cancel(); a task that has not run
\* yet never enters update_state
SessionCancel(i) ==
    \/ Live(sess[i]) /\ SessionExit(i, "cancelled")
    \/ /\ sess[i].pc = "created"
       /\ sess' = [sess EXCEPT ![i].pc = "cancelled"]
       /\ SetReg(Reg, tasks)
       /\ UNCHANGED <<opened, pubs, games>>
       /\ reply' = NoReply /\ event' = NoEvent
       /\ KeepRest

\* a callback suspended in the join() of update_brethren; pp and ps are the
\* locals players and spectators of start_game once it has popped them
Publisher(op, h, pc, waits, pp, ps) ==
    [op |-> op, host |-> h, pc |-> pc, waits |-> waits, pp |-> pp, ps |-> ps]

\* which callbacks reach start_game on which party: a join when no
\* spectators are allowed or their cap is a number (lines 377-387), a
\* spectate when both caps are numbers and the spectators have reached theirs
\* (lines 451-456), start on a hosted lobby (the button is removed without a
\* host), the timer on the public queue of a game whose join gets as far as
\* schedule_start (lines 390-394)
StartsBy(op, h) ==
    \/ op = "join" /\ game.max_spectators # None
    \/ op = "spectate" /\ game.max_spectators \notin {0, None} /\ game.max_players # None
    \/ op = "start" /\ h # NoHost
    \/ op = "timer" /\ h = NoHost /\ WaitsForTimer(game)

\* room for one more callback
CanPublish == nops < MaxOps /\ BagCardinality(pubs) < MaxTasks

\* a callback about to run from position pc: the registry, the sessions and
\* the games as it finds them, its last put and its outcome
Running(op, h, pc, pp, ps) ==
    [op |-> op, host |-> h, pc |-> pc, waits |-> {}, pp |-> pp, ps |-> ps,
     reg |-> Reg, sess |-> sess, games |-> games, put |-> NoEvent, res |-> "none"]

\* update_brethren(msg) from the registry r, then the code is at position pc
Brethren(m, r, ss, msg, pc) ==
    LET ub == UpdateBrethren(r, ss, m.host, msg)
    IN [m EXCEPT !.reg = ub.reg, !.sess = ub.sess, !.waits = ub.waits,
                 !.put = Puts(m.host, msg), !.pc = pc]

\* the code of a callback from position m.pc to its next update_brethren
Stretch(m) ==
    LET h == m.host
        sg == StartGame(m.reg, h)
        pop == PopParticipants(m.reg, h)
        rp == IF h # NoHost THEN RemovePrivate(m.reg, h) ELSE [reg |-> m.reg, ok |-> TRUE]
        s1 == IF h # NoHost /\ rp.ok THEN DelUpdates(m.sess, h) ELSE m.sess
        g == NewGame([op |-> m.op, host |-> h, pp |-> m.pp, ps |-> m.ps])
        after == IF rp.ok THEN rp.reg ELSE m.reg
        tail == IF m.op = "join" THEN JoinTail(after, h) ELSE after
        last == IF m.op = "join" THEN JoinTail(m.reg, h) ELSE m.reg
        made == [m EXCEPT !.games = Append(@, g)]
    IN CASE m.pc = "start_game" ->
                \* lines 250-255, or 250-269 without a host
                Brethren([m EXCEPT !.pp = sg.pp, !.ps = sg.ps],
                         sg.reg, m.sess, sg.put, sg.pc)
         [] m.pc = "sg_players" ->
                \* lines 256-269
                Brethren([m EXCEPT !.pp = pop.pp, !.ps = pop.ps],
                         pop.reg, m.sess, pop.put, pop.pc)
         [] m.pc = "sg_started" ->
                \* lines 270-274, then the caller's final update_brethren
                IF ~rp.ok
                THEN [m EXCEPT !.reg = rp.reg, !.pc = "over", !.res = "KeyError"]
                ELSE IF g.raised # "none"
                THEN \* the exception leaves start_game and its caller
                     [m EXCEPT !.reg = rp.reg, !.sess = s1, !.games = Append(@, g),
                               !.pc = "over", !.res = g.raised]
                ELSE IF m.op \in {"join", "spectate"}
                THEN Brethren(made, tail, s1,
                              PLAYERS, "brethren")
                ELSE [m EXCEPT !.reg = rp.reg, !.sess = s1, !.games = Append(@, g),
                               !.pc = "over", !.res = "ok"]
         [] m.pc = "final" ->
                \* join, leave or spectate that starts no game
                Brethren(m, last, m.sess, PLAYERS, "brethren")
         [] m.pc = "brethren" ->
                [m EXCEPT !.pc = "over", !.res = "ok"]

\* self.updates.join() gathers nothing when no queue is registered and then
\* does not suspend: the callback runs on to the first join() that has a
\* queue to wait for, or to its end
RunOn(on) == IF on.pc = "over" \/ on.waits # {} THEN on ELSE Stretch(on)

\* a callback is over after four stretches at most: start_game up to
\* update_brethren(PLAYERS), up to update_brethren(STARTED), up to the
\* caller's update_brethren(PLAYERS), and the return
Run(from) ==
    CHOOSE m4 \in {RunOn(m3) : m3 \in {RunOn(m2) : m2 \in
                     {RunOn(m1) : m1 \in {Stretch(from)}}}} : TRUE

\* the callback that is at position pc, run to its next suspension or its end
RunFrom(op, h, pc, pp, ps) == Run(Running(op, h, pc, pp, ps))

\* the state after the callback has run as m and is suspended or over
Commit(m, before) ==
    /\ SetReg(m.reg, tasks)
    /\ sess' = m.sess
    /\ games' = m.games
    /\ pubs' = IF m.pc = "over" THEN before
               ELSE before (+) SetToBag({Publisher(m.op, m.host, m.pc, m.waits,
                                                   m.pp, m.ps)})
    /\ event' = m.put
    /\ reply' = IF m.res \in {"KeyError", "TypeError", "ValueError"}
                THEN Reply([op |-> m.op, user |-> 0, host |-> m.host], m.res)
                ELSE NoReply
    /\ UNCHANGED <<game, opened, member>> /\ UNCHANGED bqVars /\ UNCHANGED engVars /\ UNCHANGED matchVars

\* join, leave or spectate reaches its final update_brethren(PLAYERS) without
\* having started the game
PubBegin(h, op) ==
    /\ opened[h] /\ CanPublish
    /\ op \in {"join", "leave"} \/ (op = "spectate" /\ game.max_spectators # 0)
    /\ \E m \in {RunFrom(op, h, "final", <<>>, <<>>)} : Commit(m, pubs)
    /\ nops' = nops + 1

\* a callback (or the timer's task) enters start_game
PubStartGame(h, op) ==
    /\ opened[h] /\ CanPublish
    /\ StartsBy(op, h)
    /\ \E m \in {RunFrom(op, h, "start_game", <<>>, <<>>)} : Commit(m, pubs)
    /\ nops' = nops + 1

\* a join() of update_brethren returns: every queue it waited for is joined
Resume(p) ==
    /\ p.waits = {}
    /\ \E m \in {RunFrom(p.op, p.host, p.pc, p.pp, p.ps)} :
          Commit(m, pubs (-) SetToBag({p}))
    /\ nops' = nops

\* start_game of a hosted lobby goes on after update_brethren(PLAYERS)
PubPop(p) == p.pc = "sg_players" /\ Resume(p)

\* start_game goes on after update_brethren(STARTED)
PubFinish(p) == p.pc = "sg_started" /\ Resume(p)

\* the final update_brethren returns and the callback is over
PubDone(p) == p.pc = "brethren" /\ Resume(p)

Ops == {"join", "spectate", "leave", "start", "timer"}

NextSession ==
    \/ \E h \in Hosts : OpenView(h)
    \/ \E i \in 1..Len(sess) : SessionStart(i)
    \/ \E i \in 1..Len(sess) : SessionGet(i)
    \/ \E i \in 1..Len(sess) : SessionHandled(i)
    \/ \E i \in 1..Len(sess) : SessionStopped(i)
    \/ \E i \in 1..Len(sess) : SessionRaise(i)
    \/ \E i \in 1..Len(sess) : SessionCancel(i)
    \/ \E h \in Hosts, op \in Ops : PubBegin(h, op)
    \/ \E h \in Hosts, op \in Ops : PubStartGame(h, op)
    \/ \E p \in BagToSet(pubs) : PubPop(p)
    \/ \E p \in BagToSet(pubs) : PubFinish(p)
    \/ \E p \in BagToSet(pubs) : PubDone(p)

\* A party after two joins that are over: users 1 and 2 are queued, the view
\* they joined through has displayed them and its update_state waits in
\* queue.get(); in the public queue of a game that waits for its timer the
\* second join has scheduled the start.  For a game that starts on the second
\* join this is the registry as that join finds it on entering start_game.
InitSeated ==
    /\ game \in GameProperties
    /\ \E h \in Hosts :
          /\ players = [x \in Hosts |-> IF x = h THEN << <<1, 2>> >> ELSE <<>>]
          /\ phas = [x \in Hosts |-> x = h]
          /\ spectators = [x \in Hosts |->
                             IF x = h /\ game.max_spectators # 0 THEN << <<>> >> ELSE <<>>]
          /\ shas = [x \in Hosts |-> x = h /\ game.max_spectators # 0]
          /\ uhas = [x \in Hosts |-> x = h]
          /\ opened = [x \in Hosts |-> x = h]
          /\ member = {<<1, h, "players">>, <<2, h, "players">>}
          /\ timeout_task = IF h = NoHost /\ WaitsForTimer(game) THEN "pending" ELSE "none"
          /\ sess = <<[NewSession(h) EXCEPT !.pc = "get", !.reg = TRUE]>>
    /\ tasks = EmptyBag
    /\ games = <<>>
    /\ reply = NoReply
    /\ event = NoEvent
    /\ nops = 0
    /\ pubs = EmptyBag

\* the sessions of a lobby nobody has joined yet, or of a party of two
InitSession == Init \/ (InitSeated /\ InitBQ /\ InitNoEngine)

SpecSession == InitSession /\ [][NextSession]_vars

\* the event loop runs every task that can run: a session whose queue has
\* an item gets it, a render call that does not raise returns, and a join()
\* whose queues are all joined returns
Progress ==
    \/ \E i \in 1..Len(sess) :
          SessionStart(i) \/ SessionGet(i) \/ SessionHandled(i) \/ SessionStopped(i)
    \/ \E p \in BagToSet(pubs) : PubPop(p) \/ PubFinish(p) \/ PubDone(p)

\* nops bounds the callbacks and every step of a task uses up an item or a
\* position, so a behaviour takes finitely many steps and fairness on the
\* disjunction leaves no task that can run waiting
FairSession == WF_vars(Progress)

SpecSessionFair == SpecSession /\ FairSession

(* ============================ game engines ============================ *)
(* The engines are plain objects: a state record and the methods of the    *)
(* class as operators on it.  SpecEngine constructs one engine and calls   *)
(* its update with every argument of a small set.                          *)

(* ---------------------------- Connect4Engine --------------------------- *)
\* DIM, the dimension of the board
DIM == 7
Cells == 0..(DIM - 1)

\* Player enum
NONE == "NONE"
RED == "RED"
BLUE == "BLUE"

\* Python's True, None and False as won() returns them
PyTrue == "True"
PyNone == "None"
PyFalse == "False"

\* Connect4Engine.after
After(turn) == IF turn = BLUE THEN RED ELSE IF turn = RED THEN BLUE ELSE NONE

\* Connect4Engine.__init__
NewConnect4 ==
    [kind |-> "connect4",
     board |-> [row \in Cells |-> [col \in Cells |-> NONE]],
     next_turn |-> BLUE]

\* update, lines 53-58: the row the piece is put in; row - 1 is -1 when the
\* column is full, and board[-1] is the last row
LandingRow(board, column) ==
    LET taken == {row \in Cells : board[row][column] # NONE}
        first == CHOOSE row \in taken : \A r \in taken : row <= r
    IN IF taken = {} THEN DIM - 1
       ELSE IF first = 0 THEN DIM - 1 ELSE first - 1

\* update that leaves next_turn alone
C4Update_SameTurn(e, column) ==
    [e EXCEPT !.board[LandingRow(e.board, column)][column] = e.next_turn]

\* Connect4Engine.update
C4Update(e, column) ==
    [e EXCEPT !.board[LandingRow(e.board, column)][column] = e.next_turn,
              !.next_turn = After(e.next_turn)]

\* won, lines 74-98: the four families of runs the loops go through
RunOf(board, player) ==
    \/ \E row \in 0..(DIM - 1), col \in 0..(DIM - 4) :
          \A i \in 0..3 : board[row][col + i] = player
    \/ \E row \in 0..(DIM - 4), col \in 0..(DIM - 1) :
          \A i \in 0..3 : board[row + i][col] = player
    \/ \E row \in 3..(DIM - 1), col \in 0..(DIM - 4) :
          \A i \in 0..3 : board[row - i][col + i] = player
    \/ \E row \in 0..(DIM - 4), col \in 0..(DIM - 4) :
          \A i \in 0..3 : board[row + i][col + i] = player

\* won, lines 102-106
FreeSpace(board) == \E row \in Cells, col \in Cells : board[row][col] = NONE

\* won(player, check_other=False)
C4WonAlone(e, player) ==
    IF player = NONE THEN PyFalse
    ELSE IF RunOf(e.board, player) THEN PyTrue
    ELSE IF FreeSpace(e.board) THEN PyFalse ELSE PyNone

\* Connect4Engine.won(player)
C4Won(e, player) ==
    IF player = NONE THEN PyFalse
    ELSE IF RunOf(e.board, player) THEN PyTrue
    ELSE IF C4WonAlone(e, After(player)) = PyTrue THEN PyNone
    ELSE IF FreeSpace(e.board) THEN PyFalse ELSE PyNone

\* Connect4Engine.ended
C4Ended(e) == C4Won(e, BLUE) # PyFalse

\* Connect4Engine.legal_columns
LegalColumns(e) == {col \in Cells : e.board[0][col] = NONE}

(* ------------------------------ Engine2048 ----------------------------- *)
\* a cell of the board holds a tile or None, written 0
Empty == 0
Side == 0..3
\* ARROWS: the (dx, dy) of the four buttons
ARROWS == {<<0, -1>>, <<-1, 0>>, <<1, 0>>, <<0, 1>>}
\* the values of ending and allow_continue the model constructs engines with
Endings == {16}

\* has_legal_move
HasLegalMove(board) ==
    \E x \in Side, y \in Side :
        \/ board[x][y] = Empty
        \/ x > 0 /\ board[x][y] = board[x - 1][y]
        \/ x < 3 /\ board[x][y] = board[x + 1][y]
        \/ y > 0 /\ board[x][y] = board[x][y - 1]
        \/ y < 3 /\ board[x][y] = board[x][y + 1]

\* any(tile >= self.ending for tile in all_tiles if tile is not None)
WinningTile(e) ==
    \E x \in Side, y \in Side : e.board[x][y] # Empty /\ e.board[x][y] >= e.ending

\* Engine2048.won(ignore_continue)
Won2048(e, ignore_continue) ==
    IF e.allow_continue /\ ~ignore_continue
    THEN IF HasLegalMove(e.board) THEN PyFalse
         ELSE IF WinningTile(e) THEN PyTrue ELSE PyNone
    ELSE IF WinningTile(e) THEN PyTrue
         ELSE IF HasLegalMove(e.board) THEN PyFalse ELSE PyNone

\* Engine2048.game_done
GameDone(e) == Won2048(e, FALSE) # PyFalse

\* random_space: the empty cells, in the order of the loops
Choices(board) ==
    SelectSeq([i \in 1..16 |-> <<(i - 1) \div 4, (i - 1) % 4>>],
              LAMBDA c : board[c[1]][c[2]] = Empty)

\* add_random_tile with new_value and the cell random_space chose; nothing
\* is added when there is no empty cell
AddRandomTile(board, new_value, k) ==
    IF Choices(board) = <<>> THEN board
    ELSE LET c == Choices(board)[k]
         IN [board EXCEPT ![c[1]][c[2]] = new_value]

\* Engine2048.__init__ before its two add_random_tile calls
Blank2048(ending, allow_continue) ==
    [kind |-> "2048", ending |-> ending, allow_continue |-> allow_continue,
     points |-> 0, board |-> [x \in Side |-> [y \in Side |-> Empty]]]

\* the xrange and yrange of update, and the cells in the order
\* `for x in xrange: for y in yrange` visits them
RangeOf(d) ==
    IF d > 0 THEN <<2, 1, 0>> ELSE IF d < 0 THEN <<1, 2, 3>> ELSE <<0, 1, 2, 3>>
Visits(dx, dy) ==
    LET xr == RangeOf(dx)
        yr == RangeOf(dy)
    IN [i \in 1..(Len(xr) * Len(yr)) |->
           <<xr[((i - 1) \div Len(yr)) + 1], yr[((i - 1) % Len(yr)) + 1]>>]

\* one pass of the for loops of fall over the cells still to visit
RECURSIVE FallPass(_, _, _, _, _)
FallPass(board, cells, dx, dy, changed) ==
    IF cells = <<>> THEN [board |-> board, changed |-> changed]
    ELSE LET x == Head(cells)[1]
             y == Head(cells)[2]
         IN IF board[x][y] = Empty
            THEN FallPass(board, Tail(cells), dx, dy, changed)
            ELSE IF board[x + dx][y + dy] = Empty
            THEN FallPass([board EXCEPT ![x + dx][y + dy] = board[x][y],
                                        ![x][y] = Empty],
                          Tail(cells), dx, dy, TRUE)
            ELSE FallPass(board, Tail(cells), dx, dy, changed)

\* Engine2048.fall: passes until one changes nothing
RECURSIVE Fall(_, _, _, _)
Fall(board, dx, dy, changed_once) ==
    LET p == FallPass(board, Visits(dx, dy), dx, dy, FALSE)
    IN IF p.changed THEN Fall(p.board, dx, dy, TRUE)
       ELSE [board |-> p.board, changed |-> changed_once]

\* one pass of the for loops of merge; m holds board, points, moved, changed
RECURSIVE MergePass(_, _, _, _)
MergePass(m, cells, dx, dy) ==
    IF cells = <<>> THEN m
    ELSE LET x == Head(cells)[1]
             y == Head(cells)[2]
         IN IF m.board[x][y] = Empty \/ <<x, y>> \in m.moved
            THEN MergePass(m, Tail(cells), dx, dy)
            ELSE IF m.board[x][y] = m.board[x + dx][y + dy]
            THEN MergePass([board |-> [m.board EXCEPT
                                          ![x + dx][y + dy] = 2 * m.board[x][y],
                                          ![x][y] = Empty],
                            points |-> m.points + 2 * m.board[x][y],
                            moved |-> m.moved \cup {<<x + dx, y + dy>>, <<x, y>>},
                            changed |-> TRUE],
                           Tail(cells), dx, dy)
            ELSE MergePass(m, Tail(cells), dx, dy)

\* Engine2048.merge: passes until one changes nothing, moved kept across them
RECURSIVE Merge(_, _, _, _)
Merge(m, dx, dy, changed_once) ==
    LET p == MergePass([m EXCEPT !.changed = FALSE], Visits(dx, dy), dx, dy)
    IN IF p.changed THEN Merge(p, dx, dy, TRUE)
       ELSE [board |-> p.board, points |-> p.points, changed |-> changed_once]

\* the while loop of update: fall, and merge only when fall changed nothing
RECURSIVE Settle(_, _, _, _)
Settle(e, dx, dy, changed_once) ==
    LET f == Fall(e.board, dx, dy, FALSE)
        m == Merge([board |-> e.board, points |-> e.points, moved |-> {},
                    changed |-> FALSE], dx, dy, FALSE)
    IN IF f.changed
       THEN Settle([e EXCEPT !.board = f.board], dx, dy, TRUE)
       ELSE IF m.changed
       THEN Settle([e EXCEPT !.board = m.board, !.points = m.points], dx, dy, TRUE)
       ELSE [engine |-> e, changed_once |-> changed_once]

\* update where a tile is added whether or not anything changed
Update2048_AlwaysAdds(e, dx, dy, new_value, k) ==
    LET s == Settle(e, dx, dy, FALSE)
    IN [s.engine EXCEPT !.board = AddRandomTile(@, new_value, k)]

\* Engine2048.update, with the outcome of the random choices of
\* add_random_tile
Update2048(e, dx, dy, new_value, k) ==
    LET s == Settle(e, dx, dy, FALSE)
    IN IF s.changed_once
       THEN [s.engine EXCEPT !.board = AddRandomTile(@, new_value, k)]
       ELSE s.engine

\* the outcomes of random.choice(choices) in random_space: any of the empty
\* cells; with no empty cell the choice raises IndexError and no tile is
\* added, whatever the outcome is called
SpawnChoices(board) ==
    IF Choices(board) = <<>> THEN {1} ELSE 1..Len(Choices(board))

\* the engine of __init__ where the second tile may land on the first
Construct2048_MayOverlap(ending, allow_continue) ==
    {[Blank2048(ending, allow_continue) EXCEPT !.board =
         [AddRandomTile(@, v1, k1) EXCEPT
             ![k2 \div 4][k2 % 4] = v2]] :
       v1 \in {2, 4}, k1 \in 1..16, v2 \in {2, 4}, k2 \in 0..15}

\* Engine2048.__init__: every outcome of the two add_random_tile calls
Construct2048(ending, allow_continue) ==
    {[Blank2048(ending, allow_continue) EXCEPT !.board =
         AddRandomTile(AddRandomTile(@, v1, k1), v2, k2)] :
       v1 \in {2, 4}, k1 \in 1..16, v2 \in {2, 4}, k2 \in 1..15}

(* ---------------------------- NumguessEngine --------------------------- *)
\* the class attributes cur_min and cur_max
CurMin == 1
CurMax == 100
\* the secrets random.randint can give that the model follows, the guesses
\* it sends (guess_check lets through any string of digits) and the values of
\* tries it starts with
Secrets == (CurMin..(CurMin + NumEdge - 1)) \cup {50}
              \cup ((CurMax - NumEdge + 1)..CurMax)
Guesses == ((CurMin - 1)..(CurMin + NumEdge)) \cup {49, 50, 51}
              \cup ((CurMax - NumEdge)..(CurMax + 1))
Tries == 0..MaxTries

\* NumguessEngine.__init__
NewNumguess(tries, secret) ==
    [kind |-> "numguess", secret |-> secret, last_guess |-> None,
     cur_min |-> CurMin, cur_max |-> CurMax, tries |-> tries]

\* NumguessEngine.won
NgWon(e) ==
    IF e.last_guess = e.secret THEN PyTrue
    ELSE IF e.tries <= 0 THEN PyNone
    ELSE PyFalse

\* NumguessEngine.ended
NgEnded(e) == NgWon(e) # PyNone

\* NumguessEngine.update: the if chain, lines 51-62
NgBranch(e, guess) ==
    IF guess <= e.cur_min THEN [tries |-> e.tries + 1, result |-> -2,
                                cur_min |-> e.cur_min, cur_max |-> e.cur_max]
    ELSE IF guess < e.secret THEN [tries |-> e.tries, result |-> -1,
                                   cur_min |-> guess, cur_max |-> e.cur_max]
    ELSE IF guess >= e.cur_max THEN [tries |-> e.tries + 1, result |-> 2,
                                     cur_min |-> e.cur_min, cur_max |-> e.cur_max]
    ELSE IF guess > e.secret THEN [tries |-> e.tries, result |-> 1,
                                   cur_min |-> e.cur_min, cur_max |-> guess]
    ELSE [tries |-> e.tries, result |-> 0,
          cur_min |-> e.cur_min, cur_max |-> e.cur_max]

\* NumguessEngine.update: the engine afterwards
NgUpdate(e, guess) ==
    LET b == NgBranch(e, guess)
    IN [e EXCEPT !.last_guess = guess, !.cur_min = b.cur_min,
                 !.cur_max = b.cur_max, !.tries = b.tries - 1]

\* NumguessEngine.update: what it returns
NgResult(e, guess) == NgBranch(e, guess).result

(* ------------------------------ SpecEngine ----------------------------- *)
KeepAllButEngine ==
    UNCHANGED lobbyVars /\ UNCHANGED bqVars /\ UNCHANGED sessVars
    /\ UNCHANGED matchVars

\* the engine after update has been called with each column of cols in turn
RECURSIVE Played(_, _)
Played(e, cols) ==
    IF cols = <<>> THEN e ELSE Played(C4Update(e, Head(cols)), Tail(cols))

\* the positions the model starts an engine from: a fresh engine, two
\* games in progress in which either colour can complete a diagonal, and
\* one in which column 0 has been filled
StairUp == <<0, 1, 1, 2, 3, 2, 2, 3, 5, 3>>
StairDown == <<6, 5, 5, 4, 3, 4, 4, 3, 1, 3>>
Tower == <<0, 0, 0, 0, 0, 0, 0, 1, 1, 1>>
Openings == {<<>>, StairUp, StairDown, Tower}

\* how many moves the model lets an engine have
PliesAllowed(n) ==
    IF n >= Len(StairUp) THEN Len(StairUp) + LatePlies ELSE MaxPlies

\* game.update(column) on the Connect4 engine
Connect4Move(column) ==
    /\ c4 # NoEngine /\ nmoves < PliesAllowed(nmoves)
    /\ c4' = C4Update(c4, column)
    /\ ret' = <<>>
    /\ nmoves' = nmoves + 1
    /\ UNCHANGED <<e2048, aview, numguess>>
    /\ KeepAllButEngine

\* the engine after the updates of moves, each <<dx, dy, new_value, k>> with
\* the outcome of its add_random_tile
RECURSIVE Replayed(_, _)
Replayed(e, moves) ==
    IF moves = <<>> THEN e
    ELSE Replayed(Update2048(e, Head(moves)[1], Head(moves)[2],
                             Head(moves)[3], Head(moves)[4]), Tail(moves))

\* a game of 2048 in progress: the tiles 4 and 4 of __init__ side by side,
\* merged to 8, a 4 added below, both moved across and back with another 4
\* added, so that two tiles 8 stand one above the other
TwoFours(ending, allow_continue) ==
    [Blank2048(ending, allow_continue) EXCEPT !.board =
        AddRandomTile(AddRandomTile(@, 4, 1), 4, 1)]
MidSlides == <<<<0, -1, 4, 4>>, <<0, 1, 4, 4>>, <<0, -1, 2, 1>>>>

\* how many updates the model lets an engine of 2048 have
SlidesAllowed(n) ==
    IF n >= Len(MidSlides) THEN Len(MidSlides) + LateSlides ELSE MaxSlides

\* ArrowButton.callback, update_state to its first await: game.update(dx, dy)
\* is called whatever game_done() was, and when it returns True the call
\* goes on to conclude.  The view dispatches the buttons until stop().
Slide(dx, dy) ==
    /\ e2048 # NoEngine /\ nmoves < SlidesAllowed(nmoves)
    /\ ~aview.finished
    /\ \E new_value \in {2, 4},
          k \in SpawnChoices(Settle(e2048, dx, dy, FALSE).engine.board) :
          /\ e2048' = Update2048(e2048, dx, dy, new_value, k)
          /\ ret' = <<GameDone(e2048')>>
    /\ aview' = IF GameDone(e2048') THEN [aview EXCEPT !.concluding = @ + 1] ELSE aview
    /\ nmoves' = nmoves + 1
    /\ UNCHANGED <<c4, numguess>>
    /\ KeepAllButEngine

\* update_state after edit_message(view=None), conclude to its end: the
\* followup sends return and the call reaches self.stop()
Conclude ==
    /\ e2048 # NoEngine /\ aview.concluding > 0
    /\ aview' = [finished |-> TRUE, concluding |-> aview.concluding - 1]
    /\ UNCHANGED <<c4, ret, nmoves, e2048, numguess>>
    /\ KeepAllButEngine

\* the loop of the numguess command: game.update(guess) while won() is False
Guess(guess) ==
    /\ numguess # NoEngine /\ nmoves < MaxGuesses
    /\ NgWon(numguess) = PyFalse
    /\ numguess' = NgUpdate(numguess, guess)
    /\ ret' = <<NgResult(numguess, guess)>>
    /\ nmoves' = nmoves + 1
    /\ UNCHANGED <<c4, e2048, aview>>
    /\ KeepAllButEngine

\* one engine is constructed: a Connect4Engine, an Engine2048 or a
\* NumguessEngine
InitEngine ==
    /\ InitLobby /\ InitBQ /\ InitSessions /\ game = Connect4
    /\ \/ /\ \E o \in Openings : c4 = Played(NewConnect4, o) /\ nmoves = Len(o)
          /\ e2048 = NoEngine /\ numguess = NoEngine
       \/ /\ c4 = NoEngine /\ numguess = NoEngine /\ nmoves = 0
          /\ \E ending \in Endings, allow_continue \in BOOLEAN :
                e2048 \in Construct2048(ending, allow_continue)
       \/ /\ c4 = NoEngine /\ numguess = NoEngine /\ nmoves = Len(MidSlides)
          /\ \E ending \in Endings, allow_continue \in BOOLEAN :
                e2048 = Replayed(TwoFours(ending, allow_continue), MidSlides)
       \/ /\ c4 = NoEngine /\ e2048 = NoEngine /\ nmoves = 0
          /\ \E tries \in Tries, secret \in Secrets :
                numguess = NewNumguess(tries, secret)
    /\ ret = NoReturn
    /\ aview = NewArrowView
    /\ msess = <<>>
    /\ mevent = NoMatchEvent
    /\ shown = <<>>

NextEngine ==
    \/ \E column \in Cells : Connect4Move(column)
    \/ \E d \in ARROWS : Slide(d[1], d[2])
    \/ Conclude
    \/ \E guess \in Guesses : Guess(guess)

SpecEngine == InitEngine /\ [][NextEngine]_vars

(* -------------------------- a Connect4 match --------------------------- *)
(* Connect4.__init__ makes one engine, one BroadcastQueue and one          *)
(* Connect4View per player and spectator; each view runs consume_events.   *)
(* The views' tasks are created together and run before anything can be    *)
(* pressed, so every session of a match in progress has registered.        *)

\* Event enum
MOVE_MADE == "MOVE_MADE"
GAME_OVER == "GAME_OVER"
TIMEOUT == "TIMEOUT"

\* the viewers of the match: players.items() gives red, then blue; further
\* viewers are spectators
Viewers == 1..MaxQueues
MatchPlayers == {1, 2}

\* a match in progress: three pieces each in columns 0 and 1, every view
\* waiting in queue.get()
MidGame == <<0, 1, 0, 1, 0, 1>>
IdleView(v) == [viewer |-> v, pc |-> "get", inbox |-> <<>>, reg |-> TRUE,
                stopped |-> FALSE]

\* the columns pressed in the model
PlayColumns == {0, 1}

\* viewer_color: red and blue are the two players, in the order of
\* players.items(); a spectator has NONE
ViewerColor(v) == IF v = 1 THEN RED ELSE IF v = 2 THEN BLUE ELSE NONE

\* display_board, line 223: the select is disabled unless it is the viewer's
\* turn; evaluated when display_board is called
Disabled(e, v) == e.next_turn # ViewerColor(v)

\* the message of a view as it is displayed: its select disabled (or gone),
\* the value the session's render call in flight carries, and the values
\* the edits of the play callbacks in flight carry, in order
ShownAt(e, v) == [disabled |-> Disabled(e, v), will |-> Disabled(e, v), edits |-> <<>>]

\* events.put_nowait((self, event)): a copy for every registered queue
MatchPut(ss, v, ev) ==
    [i \in 1..Len(ss) |->
        IF ss[i].reg THEN [ss[i] EXCEPT !.inbox = Append(@, [sender |-> v, event |-> ev])]
        ELSE ss[i]]

\* consume_events where the sender of GAME_OVER goes on waiting
OnEvent_SenderStays(i, m) ==
    IF m.event = TIMEOUT THEN "edit"
    ELSE IF m.event = MOVE_MADE /\ m.sender # i THEN "display"
    ELSE IF m.event = GAME_OVER /\ m.sender # i THEN "finalize"
    ELSE "get"

\* consume_events, lines 198-215: where the session is after the branch taken
\* for a message, up to its await or its return
OnEvent(i, m) ==
    IF m.event = TIMEOUT THEN "edit"
    ELSE IF m.event = MOVE_MADE /\ m.sender # i THEN "display"
    ELSE IF m.event = GAME_OVER /\ m.sender # i THEN "finalize"
    ELSE IF m.event = GAME_OVER THEN "returned"
    ELSE "get"

\* self.stop() and return: consume() deregisters the queue
Leave(x, how) == [x EXCEPT !.pc = how, !.inbox = <<>>, !.reg = FALSE,
                           !.stopped = IF how = "returned" THEN TRUE ELSE @]

KeepAllButMatch ==
    UNCHANGED lobbyVars /\ UNCHANGED bqVars /\ UNCHANGED sessVars

\* consume_events: queue.get() returns and the branch for the message runs
MatchGet(i) ==
    LET m == Head(msess[i].inbox)
        next == OnEvent(i, m)
    IN /\ msess[i].pc = "get" /\ msess[i].inbox # <<>>
       /\ msess' = [msess EXCEPT ![i] =
                      IF next = "returned" THEN Leave(@, "returned")
                      ELSE [@ EXCEPT !.inbox = Tail(@), !.pc = next]]
       /\ shown' = [shown EXCEPT ![i].will =
                      IF next = "display" THEN Disabled(c4, i)
                      ELSE IF next \in {"edit", "finalize"} THEN TRUE ELSE @]
       /\ mevent' = NoMatchEvent
       /\ UNCHANGED engVars
       /\ KeepAllButMatch

\* the render call of a branch returns: display_board goes back to
\* queue.get(), the edit of TIMEOUT and finalize are followed by stop, return
MatchRendered(i) ==
    /\ msess[i].pc \in {"display", "edit", "finalize"}
    /\ msess' = [msess EXCEPT ![i] =
                   IF @.pc = "display" THEN [@ EXCEPT !.pc = "get"]
                   ELSE Leave(@, "returned")]
    /\ shown' = [shown EXCEPT ![i].disabled = shown[i].will]
    /\ mevent' = NoMatchEvent
    /\ UNCHANGED engVars
    /\ KeepAllButMatch

\* the render call of a branch raises: the task ends, consume() deregisters
MatchRaise(i) ==
    /\ msess[i].pc \in {"display", "edit", "finalize"}
    /\ msess' = [msess EXCEPT ![i] = Leave(@, "raised")]
    /\ shown' = shown
    /\ mevent' = NoMatchEvent
    /\ UNCHANGED engVars
    /\ KeepAllButMatch

\* play, for a select the viewer's message displays enabled: update the
\* engine, put MOVE_MADE or GAME_OVER, then display_board(ctx) or
\* finalize(ctx) up to the await of edit_message
Play(v, column) ==
    LET e == C4Update(c4, column)
        ev == IF C4Won(e, BLUE) = PyFalse THEN MOVE_MADE ELSE GAME_OVER
    IN /\ v \in MatchPlayers /\ ~msess[v].stopped
       /\ ~shown[v].disabled
       /\ nmoves < Len(MidGame) + MatchPlies
       /\ shown' = [shown EXCEPT ![v].edits =
                      Append(@, IF ev = MOVE_MADE THEN Disabled(e, v) ELSE TRUE)]
       /\ c4' = e
       /\ ret' = <<>>
       /\ nmoves' = nmoves + 1
       /\ UNCHANGED <<e2048, aview, numguess>>
       /\ msess' = MatchPut(msess, v, ev)
       /\ mevent' = [sender |-> v, event |-> ev]
       /\ KeepAllButMatch

\* the edit_message of a play callback returns: the message displays the
\* select as display_board set it, or no select after finalize
PlayRendered(v) ==
    /\ shown[v].edits # <<>>
    /\ shown' = [shown EXCEPT ![v].disabled = Head(shown[v].edits),
                              ![v].edits = Tail(@)]
    /\ mevent' = NoMatchEvent
    /\ UNCHANGED <<msess>>
    /\ UNCHANGED engVars
    /\ KeepAllButMatch

\* on_timeout: the view has had no interaction for its timeout; a view times
\* out once and is finished afterwards
OnTimeout(v) ==
    /\ ~msess[v].stopped
    /\ msess' = MatchPut([msess EXCEPT ![v].stopped = TRUE], v, TIMEOUT)
    /\ shown' = shown
    /\ mevent' = [sender |-> v, event |-> TIMEOUT]
    /\ UNCHANGED engVars
    /\ KeepAllButMatch

InitMatch ==
    /\ InitLobby /\ InitBQ /\ InitSessions /\ game = Connect4
    /\ c4 = Played(NewConnect4, MidGame)
    /\ e2048 = NoEngine /\ numguess = NoEngine /\ aview = NewArrowView
    /\ ret = NoReturn
    /\ nmoves = Len(MidGame)
    /\ msess = [v \in Viewers |-> IdleView(v)]
    /\ shown = [v \in Viewers |-> ShownAt(Played(NewConnect4, MidGame), v)]
    /\ mevent = NoMatchEvent

NextMatch ==
    \/ \E i \in Viewers : MatchGet(i)
    \/ \E i \in Viewers : MatchRendered(i)
    \/ \E i \in Viewers : MatchRaise(i)
    \/ \E v \in Viewers, column \in PlayColumns : Play(v, column)
    \/ \E v \in Viewers : PlayRendered(v)
    \/ \E v \in Viewers : OnTimeout(v)

\* a session that can go on does: queue.get() returns when the queue has an
\* item, and a render call that does not raise returns; the moves and the
\* timeouts are bounded, so fairness on the disjunction leaves no session
\* that can go on waiting
MatchProgress == \E i \in Viewers : MatchGet(i) \/ MatchRendered(i) \/ PlayRendered(i)
FairMatch == WF_vars(MatchProgress)

SpecMatch == InitMatch /\ [][NextMatch]_vars /\ FairMatch

(* ================================ claims ================================ *)
InStart(t) == t.pc \in {"sg_players", "sg_started"}

\* C1: every party, public or private, holds at most max_players queued
\* players and at most max_spectators queued spectators.
C1_PartyWithinCaps ==
    \A h \in Hosts :
        /\ game.max_players # None => Len(Queued(h)) <= game.max_players
        /\ game.max_spectators # None => Len(QueuedSpectators(h)) <= game.max_spectators

\* C2: nobody is silently dropped: whoever joined or spectates, has not left
\* and has not been popped for a game is still queued in the party's map.
C2_NoSilentDrop ==
    \A m \in member :
        IF m[3] = "players" THEN m[1] \in Keys(Queued(m[2]))
        ELSE m[1] \in Keys(QueuedSpectators(m[2]))

\* C3: at most one start_game invocation per party is between its first line
\* and the construction of the game.
C3_StartExclusive ==
    \A h \in Hosts :
        LET starting == {t \in Active : t.host = h /\ InStart(t)}
        IN Cardinality(starting) <= 1 /\ \A t \in starting : CopiesIn(t, tasks) = 1

\* C4: the queued players of a party are exactly the identities whose join
\* succeeded, minus those whose leave succeeded and those a start popped,
\* each queued once.
C4_QueuedIsJoinsMinusLeaves ==
    \A h \in Hosts :
        /\ Keys(Queued(h)) = {u \in Users : <<u, h, "players">> \in member}
        /\ Cardinality(Keys(Queued(h))) = Len(Queued(h))

\* C7: a game the start timer constructs has at least min_players players:
\* the timer's start_game is a no-op when fewer are queued.
C7_TimerRechecks ==
    \A i \in 1..Len(games) :
        games[i].by = "timer" => Len(games[i].players) >= game.min_players

\* C10: no identity is queued (as player or spectator) in the public queue
\* and in a private lobby of the same game at once.
C10_OnePartyPerIdentity ==
    \A u \in Users :
        ~ /\ u \in Keys(Queued(NoHost)) \cup Keys(QueuedSpectators(NoHost))
          /\ u \in Keys(Queued(PrivHost)) \cup Keys(QueuedSpectators(PrivHost))

(* ---- steps of one task, for the claims about what a join or leave does ---- *)
\* task t takes the step: it leaves the point where it was suspended
Steps(t) == CopiesIn(t, tasks') < CopiesIn(t, tasks)

\* the task t has become (none when the callback is over)
Becomes(t) ==
    {x \in BagToSet(tasks') : /\ x.op = t.op /\ x.user = t.user /\ x.host = t.host
                              /\ CopiesIn(x, tasks') > CopiesIn(x, tasks)}

\* task t runs the part of join that follows make_message
JoinAdds(t) == t.op = "join" /\ t.pc = "make_message" /\ Steps(t)

\* ... and its user is new in the party's queued players, making them n
BringsPlayersTo(t, n) ==
    /\ phas[t.host] /\ t.ref = Len(players[t.host])
    /\ t.user \notin Keys(Queued(t.host))
    /\ Len(Queued(t.host)) + 1 = n

SpectatorsAtCap(h) ==
    \/ game.max_spectators = 0
    \/ game.max_spectators # None /\ Len(QueuedSpectators(h)) >= game.max_spectators

\* task t runs the part of leave that follows unmake_message and removes
LeaveRemoves(t) ==
    /\ t.op = "leave" /\ t.pc = "unmake_message" /\ Steps(t)
    /\ \E x \in Becomes(t) : x.pc = "respond"

\* a step by a callback of a private lobby
HostedStep ==
    \E t \in Active \cup BagToSet(tasks') :
        t.host # NoHost /\ CopiesIn(t, tasks') # CopiesIn(t, tasks)

\* the start timer's callback runs in this step
TimerRuns ==
    \E t \in BagToSet(tasks') :
        t.op = "timer" /\ t.pc = "created" /\ CopiesIn(t, tasks) = 0

\* C5: a join that brings the players to exactly max_players enters the start
\* sequence in that very step, with no timer left stored (and in the public
\* queue the players already popped), when max_spectators is 0 or the
\* spectators are at their cap; otherwise it starts nothing.  A join that
\* entered the start sequence does not go on before the game is constructed.
C5_JoinAtMaxStartsNow ==
    [][\A t \in Active :
        /\ (JoinAdds(t) /\ BringsPlayersTo(t, game.max_players)) =>
              IF SpectatorsAtCap(t.host)
              THEN /\ \E x \in Becomes(t) :
                        /\ InStart(x)
                        /\ t.host = NoHost => Len(x.pp) = game.max_players
                   /\ timeout_task' = "none"
              ELSE Becomes(t) = {} /\ games' = games
        /\ (t.op = "join" /\ t.pc = "sg_started" /\ Steps(t)
                /\ reply'.res # "KeyError") =>
              /\ Len(games') = Len(games) + 1
              /\ games'[Len(games')].by = "join"
      ]_vars

\* C5 witness: a join is inside the start sequence with max_players popped
C5_Witness ==
    \E t \in Active : /\ t.op = "join" /\ t.pc = "sg_started"
                      /\ Len(t.pp) = game.max_players

\* C6 (b), (c): a hosted lobby never schedules; a leave that drops the public
\* queue below min_players leaves no timer stored; only a pending timer runs
C6_HostedAndCancel ==
    /\ HostedStep => ~(timeout_task # "pending" /\ timeout_task' = "pending")
    /\ \A t \in Active :
          (LeaveRemoves(t) /\ t.host = NoHost
              /\ Len(Queued(NoHost)') < game.min_players) => timeout_task' = "none"
    /\ TimerRuns => timeout_task = "pending" /\ timeout_task' = "fired"

\* C6 as claimed: every join that brings the public queue to exactly
\* min_players schedules a start timer; never in a hosted lobby; a leave below
\* min_players cancels it before it fires.
C6_JoinAtMinSchedules ==
    [][/\ \A t \in Active :
            (JoinAdds(t) /\ t.host = NoHost
                /\ BringsPlayersTo(t, game.min_players)) => timeout_task' = "pending"
       /\ C6_HostedAndCancel
      ]_vars

\* C6 amended: a join that brings the public queue to exactly min_players
\* schedules a start timer unless that join starts the game at once
\* (min_players = max_players with no spectators allowed or spectators at cap);
\* never in a hosted lobby; a leave below min_players cancels it before it fires.
C6_JoinAtMinSchedulesUnlessStarted ==
    [][/\ \A t \in Active :
            (JoinAdds(t) /\ t.host = NoHost
                /\ BringsPlayersTo(t, game.min_players)
                /\ ~(game.min_players = game.max_players /\ SpectatorsAtCap(NoHost)))
            => timeout_task' = "pending"
       /\ C6_HostedAndCancel
      ]_vars

\* C6 witness: a leave has just taken the public queue below min_players and
\* no timer is stored
C6_Witness ==
    \E t \in Active : /\ t.op = "leave" /\ t.pc = "respond"
                      /\ t.host = NoHost
                      /\ Len(Queued(NoHost)) = game.min_players - 1
                      /\ timeout_task = "none" /\ games = <<>>

(* ------------------- rejections of the button callbacks ------------------ *)
\* the registry and the timer are as they were before the step
PartyUnchanged ==
    /\ players' = players /\ phas' = phas
    /\ spectators' = spectators /\ shas' = shas
    /\ timeout_task' = timeout_task

\* the await at which a callback that passed its checks is first suspended
FirstAwait(op) ==
    IF op \in {"join", "spectate"} THEN "make_message"
    ELSE IF op = "leave" THEN "unmake_message" ELSE "respond"

\* the callbacks of this kind that got past their checks in this step
Accepted(op) ==
    {t \in BagToSet(tasks') : /\ t.op = op /\ t.pc = FirstAwait(op)
                              /\ CopiesIn(t, tasks') > CopiesIn(t, tasks)}

\* the players of a hosted lobby are at the cap
PrivateAtMax(h) ==
    h # NoHost /\ game.max_players # None /\ Len(Queued(h)) >= game.max_players

\* C11: a join on a hosted lobby whose players are at max_players is answered
\* LobbyFull, and that answer leaves players, spectators and the timer as they
\* were, starts no task and puts no event; no join is accepted on a hosted
\* lobby at max_players; a join on the public queue is never answered
\* LobbyFull.
C11_JoinFullRejected ==
    [][/\ (reply'.op = "join" /\ reply'.res = "LobbyFull") =>
            /\ PrivateAtMax(reply'.host)
            /\ PartyUnchanged /\ tasks' = tasks /\ games' = games
            /\ event' = NoEvent
       /\ \A t \in Accepted("join") : ~PrivateAtMax(t.host)
       /\ (reply'.op = "join" /\ reply'.res = "AlreadyQueued") =>
            ~PrivateAtMax(reply'.host)
      ]_vars

\* C11 witness: a join on the full hosted lobby has just been answered LobbyFull
C11_Witness ==
    /\ reply.op = "join" /\ reply.res = "LobbyFull"
    /\ PrivateAtMax(PrivHost)

\* a join was answered with one of its two rejections in this step
JoinRejected == reply'.op = "join" /\ reply'.res \in {"LobbyFull", "AlreadyQueued"}

\* C12 (a), (b): no join of an identity present in the party is accepted, a
\* join is answered AlreadyQueued only if the identity is present, and the
\* rejection changes nothing and puts no event; no identity is queued twice.
C12_PresentNeverAdded ==
    /\ \A t \in Accepted("join") : t.user \notin Keys(Queued(t.host))
    /\ (JoinRejected /\ reply'.res = "AlreadyQueued") =>
            reply'.user \in Keys(Queued(reply'.host))
    /\ (JoinRejected /\ reply'.user \in Keys(Queued(reply'.host))) =>
            /\ PartyUnchanged /\ tasks' = tasks /\ games' = games
            /\ event' = NoEvent
    /\ \A h \in Hosts : Cardinality(Keys(Queued(h))) = Len(Queued(h))

\* C12 as claimed: every join by an identity that is present in the party is
\* answered AlreadyQueued, leaving the party unchanged and putting no event,
\* and no identity occupies two player slots.
C12_PresentJoinAlreadyQueued ==
    [][/\ C12_PresentNeverAdded
       /\ (JoinRejected /\ reply'.user \in Keys(Queued(reply'.host))) =>
            reply'.res = "AlreadyQueued"
      ]_vars

\* C12 amended: a join by an identity that is present in the party is
\* rejected, with LobbyFull when the lobby is hosted and at max_players (that
\* test comes first) and with AlreadyQueued otherwise, leaving the party
\* unchanged and putting no event, and no identity occupies two player slots.
C12_PresentJoinRejected ==
    [][/\ C12_PresentNeverAdded
       /\ (JoinRejected /\ reply'.user \in Keys(Queued(reply'.host))) =>
            reply'.res = (IF PrivateAtMax(reply'.host) THEN "LobbyFull"
                          ELSE "AlreadyQueued")
      ]_vars

\* C12 witness: a join by a queued identity has just been answered
\* AlreadyQueued
C12_Witness ==
    /\ reply.op = "join" /\ reply.res = "AlreadyQueued"
    /\ reply.user \in Keys(Queued(reply.host))

\* C13: a leave never raises: of two leaves by one queued identity, the one
\* that does not remove the identity is answered NotQueued as a value.
C13_LeaveNeverRaises ==
    ~(reply.op = "leave" /\ reply.res = "KeyError")

\* the queued players and spectators of every party and the timer are as
\* they were before the step
QueuesUnchanged ==
    /\ \A h \in Hosts : /\ Queued(h)' = Queued(h)
                         /\ QueuedSpectators(h)' = QueuedSpectators(h)
    /\ timeout_task' = timeout_task

\* a start was answered with one of its two rejections in this step
StartRejected == reply'.op = "start" /\ reply'.res \in {"NotHost", "TooFewPlayers"}

\* C14: a start by somebody who is not the host is answered NotHost, a start
\* by the host with fewer than min_players players is answered TooFewPlayers,
\* and both answers leave the queued players, the queued spectators and the
\* timer as they were, start no task and put no event; a start that is not
\* rejected enters start_game when its send_message returns, whatever the timer
\* is, and leaves no timer stored.
C14_StartRejections ==
    [][/\ StartRejected =>
            /\ reply'.res = (IF reply'.user # reply'.host THEN "NotHost"
                             ELSE "TooFewPlayers")
            /\ reply'.res = "TooFewPlayers" =>
                   Len(Queued(reply'.host)) < game.min_players
            /\ QueuesUnchanged /\ tasks' = tasks /\ games' = games
            /\ event' = NoEvent
       /\ \A t \in Accepted("start") :
            t.user = t.host /\ Len(Queued(t.host)) >= game.min_players
       /\ \A t \in Active :
            (t.op = "start" /\ t.pc = "respond" /\ Steps(t)) =>
                /\ \E x \in Becomes(t) : InStart(x)
                /\ timeout_task' = "none"
      ]_vars

\* C14 witness: the host's start has just been answered TooFewPlayers in a
\* lobby that holds one player and stays as it was
C14_Witness ==
    /\ reply.op = "start" /\ reply.res = "TooFewPlayers"
    /\ reply.user = PrivHost /\ reply.host = PrivHost
    /\ Len(Queued(PrivHost)) = 1 /\ game.min_players = 2

\* the items put while q was registered, in the order of the puts
PutWhileRegistered(q) ==
    LET sel == SelectSeq(published, LAMBDA p : q \in p.queues)
    IN [i \in 1..Len(sel) |-> sel[i].item]

\* C8: what a consumer has got and still has queued is, in order and each
\* once, exactly what was put while its queue was registered.
C8_EachOnceInOrder ==
    \A q \in 1..MaxQueues : received[q] \o items[q] = PutWhileRegistered(q)

\* C8 witness: two registered consumers, one of which has got two items
C8_Witness ==
    /\ Cardinality(queues) >= 2
    /\ \E q \in queues : Len(received[q]) >= 2

\* the step is the first run of task k of put, which then waits for the
\* tasks gather made
Gathers(k) ==
    /\ k \in 1..Len(putting) /\ putting[k].pc = "created"
    /\ Len(putting') = Len(putting) /\ putting'[k].pc = "gathered"

\* C9: an item reaches a queue only from a publish that found the queue
\* registered: put_nowait adds to the queues registered when it is called, a
\* put to the queues registered when its task ran, and to no other; a queue
\* deregistered before or registered after gets nothing and starts empty.
C9_OnlyRegisteredReceive ==
    [][/\ \A q \in 1..MaxQueues :
            Len(items'[q]) > Len(items[q]) =>
               IF putting' = putting THEN q \in queues
               ELSE /\ Head(putting).pc = "gathered"
                    /\ q \in Head(putting).queues
       /\ \A k \in 1..Len(putting) :
            Gathers(k) => putting'[k].queues = queues
       /\ \A q \in 1..MaxQueues : q \notin 1..nqueues' => items'[q] = <<>>]_vars

\* C9 witness: an item was put while some queue object made so far was not
\* registered, and a queue was registered after a put
C9_Witness ==
    /\ \E i \in 1..Len(published) : \E q \in 1..nqueues : q \notin published[i].queues
    /\ \E q \in queues : Len(PutWhileRegistered(q)) < Len(published)

(* ------------------------ sessions and publishes ----------------------- *)
\* the last put of the step is the final update_brethren(PLAYERS) of a join,
\* leave or spectate on host h, not the one start_game opens with
FinalPut(h) ==
    /\ event' = Puts(h, PLAYERS)
    /\ ~\E p \in BagToSet(pubs') :
          p.pc = "sg_players" /\ CopiesIn(p, pubs') > CopiesIn(p, pubs)

\* C15: the PLAYERS event that ends a successful join, leave or spectate is
\* put on the queue of every session of that party that is registered at
\* that time, also when the join or spectate has itself started the game.
C15_PlayersReachRegistered ==
    [][\A h \in Hosts :
         FinalPut(h) =>
            \A i \in 1..Len(sess) :
               (sess[i].host = h /\ sess[i].reg)
                  => /\ Len(sess'[i].inbox) > Len(sess[i].inbox)
                     /\ sess'[i].inbox[Len(sess'[i].inbox)] = PLAYERS]_vars

(* --------------------------- the pop of a start ------------------------- *)
\* how many entries a cap of n takes out of k queued ones
Cap(n, k) == IF n = None THEN k ELSE Min(n, k)

\* task t runs the pop of start_game in this step and becomes x
PopsIn(t, x) ==
    /\ Steps(t) /\ x \in Becomes(t)
    /\ t.pc # "sg_started" /\ x.pc = "sg_started"

\* the players and spectators queued when the pop runs: those of the state
\* before, with the user a join or spectate adds in the same step
PlayersAtPop(t) ==
    IF t.op = "join" /\ t.pc = "make_message"
    THEN DictSet(Queued(t.host), t.user) ELSE Queued(t.host)
SpectatorsAtPop(t) ==
    IF t.op = "spectate" /\ t.pc = "make_message"
    THEN DictSet(QueuedSpectators(t.host), t.user) ELSE QueuedSpectators(t.host)

\* C16: the pop of the start sequence takes the first min(max_players,
\* queued) players and the first min(max_spectators, queued) spectators in
\* join order and leaves the others queued in their order: what is popped
\* followed by what is left is the queue as it was.
C16_PopIsFifo ==
    [][\A t \in Active : \A x \in BagToSet(tasks') :
         PopsIn(t, x) =>
            /\ x.pp \o Queued(t.host)' = PlayersAtPop(t)
            /\ Len(x.pp) = Cap(game.max_players, Len(PlayersAtPop(t)))
            /\ x.ps \o QueuedSpectators(t.host)' = SpectatorsAtPop(t)
            /\ Len(x.ps) = Cap(game.max_spectators, Len(SpectatorsAtPop(t)))]_vars

\* a pop has taken two players who joined in the order 2, 1
C16_Witness ==
    \E t \in Active : t.pc = "sg_started" /\ t.pp = <<2, 1>>

(* ------------------------ after a private start ------------------------ *)
\* task t comes back from start_game with the game constructed and returns
StartReturns(t) ==
    t.pc = "sg_started" /\ Steps(t) /\ Becomes(t) = {} /\ games' # games

\* C17: once the start sequence of a private lobby is over and the callback
\* that triggered it has returned, the registry has no players, spectators
\* or updates entry for that host.
C17_PrivateStartClearsRegistry ==
    [][\A t \in Active :
         (t.host # NoHost /\ StartReturns(t))
            => ~phas'[t.host] /\ ~shas'[t.host] /\ ~uhas'[t.host]]_vars

\* the host's start has returned with a game of the two queued players and
\* the registry has no entry for the host
C17_Witness ==
    /\ \E i \in 1..Len(games) :
          /\ games[i].host = PrivHost /\ games[i].by = "start"
          /\ games[i].raised = "none" /\ Len(games[i].players) = 2
    /\ ~phas[PrivHost] /\ ~shas[PrivHost] /\ ~uhas[PrivHost]

(* --------------------------- STARTED at a session ---------------------- *)
\* queue.get() of session i returns msg in this step
Receives(i, msg) ==
    /\ sess[i].pc = "get" /\ sess[i].inbox # <<>> /\ Head(sess[i].inbox) = msg
    /\ sess'[i].pc \in {"display", "edit"}

\* session i has left update_state
Ended(x) == x.pc \in {"returned", "raised", "cancelled"}

\* the handler of STARTED that ends the session: whatever comes after it,
\* the session is over and its queue deregistered, and a session that is
\* over handles nothing more
StopsForGood(i) ==
    /\ (sess[i].pc = "edit" /\ sess'[i].pc # "edit")
          => Ended(sess'[i]) /\ ~sess'[i].reg
    /\ Ended(sess[i]) => sess'[i] = sess[i]

\* C19: a session that receives STARTED ends and deregisters its
\* queue, in a public lobby as in a private one.
C19_StartedEndsEverySession ==
    [][\A i \in 1..Len(sess) :
         /\ Receives(i, STARTED) => sess'[i].pc = "edit"
         /\ StopsForGood(i)]_vars

(* ------------------------ consume() and deregister --------------------- *)
\* C20: a session is deregistered exactly once when it leaves its consume()
\* block, whether update_state returns, a handler raises or the task is
\* cancelled, and at no other time; so the queues registered on a
\* BroadcastQueue are those of the sessions still inside the block.
C20_ConsumeDeregistersOnce ==
    /\ [](\A i \in 1..Len(sess) : sess[i].reg <=> Live(sess[i]))
    /\ [][\A i \in 1..Len(sess) :
            /\ (Live(sess[i]) /\ Ended(sess'[i]))
                  => sess'[i].deregs = sess[i].deregs + 1 /\ sess'[i].deregs = 1
            /\ sess'[i].deregs # sess[i].deregs
                  => Live(sess[i]) /\ Ended(sess'[i])]_vars

\* one session was cancelled inside its block, another ended by a handler
\* that raised, and each was deregistered once
C20_Witness ==
    \E i, j \in 1..Len(sess) :
        /\ sess[i].pc = "cancelled" /\ sess[i].deregs = 1 /\ ~sess[i].reg
        /\ sess[j].pc = "raised" /\ sess[j].deregs = 1 /\ ~sess[j].reg


(* C21: on a Connect4 match channel, once GAME_OVER or TIMEOUT has been    *)
(* put, every session registered at that moment, the sender's included,    *)
(* eventually ends and deregisters, so the channel is left with no         *)
(* registered consumer, and a session that returned has stopped its view;  *)
(* a session that takes MOVE_MADE re-renders unless it is the sender's,    *)
(* and stays registered with its view running either way, also when the    *)
(* render returns.                                                         *)
TerminalPut == mevent.event \in {GAME_OVER, TIMEOUT}
NoConsumers == \A i \in Viewers : ~msess[i].reg /\ msess[i].pc \in {"returned", "raised"}
ReturnedStopped ==
    \A i \in Viewers : msess[i].pc = "returned" => msess[i].stopped /\ ~msess[i].reg
Takes(i) ==
    /\ msess[i].pc = "get" /\ msess[i].inbox # <<>>
    /\ mevent' = NoMatchEvent
    /\ msess'[i] # msess[i]
MoveMadeKeeps ==
    \A i \in Viewers :
        /\ Takes(i) /\ Head(msess[i].inbox).event = MOVE_MADE
           => /\ msess'[i].reg
              /\ msess'[i].stopped = msess[i].stopped
              /\ msess'[i].pc = IF Head(msess[i].inbox).sender # i
                                THEN "display" ELSE "get"
        /\ msess[i].pc = "display" /\ msess'[i].pc \notin {"display", "raised"}
           => msess'[i].pc = "get" /\ msess'[i].reg
C21_MatchChannelEnds ==
    /\ TerminalPut ~> NoConsumers
    /\ []ReturnedStopped
    /\ [][MoveMadeKeeps]_vars
C21_Witness ==
    /\ C4Ended(c4)
    /\ \A i \in Viewers : msess[i].pc = "returned" /\ msess[i].stopped


(* C22: a freshly constructed Connect4 engine has an empty 7x7 board and   *)
(* next_turn BLUE; every update hands next_turn to the other colour; and   *)
(* whenever the board has no four in a row of either colour and a free     *)
(* cell, ended() is false and won(p) is False for both colours.            *)
Directions == {<<0, 1>>, <<1, 0>>, <<1, 1>>, <<1, -1>>}
FourInARow(board, p) ==
    \E row \in Cells, col \in Cells, d \in Directions :
        \A i \in 0..3 :
            /\ row + i * d[1] \in Cells /\ col + i * d[2] \in Cells
            /\ board[row + i * d[1]][col + i * d[2]] = p
StillOpen(board) ==
    /\ ~FourInARow(board, RED) /\ ~FourInARow(board, BLUE)
    /\ \E row \in Cells, col \in Cells : board[row][col] = NONE
FreshIsEmpty ==
    c4 # NoEngine /\ nmoves = 0 =>
        /\ DOMAIN c4.board = 0..6
        /\ \A row \in 0..6 : DOMAIN c4.board[row] = 0..6
        /\ \A row \in 0..6, col \in 0..6 : c4.board[row][col] = NONE
        /\ c4.next_turn = BLUE
OpenNotEnded ==
    c4 # NoEngine /\ StillOpen(c4.board) =>
        /\ ~C4Ended(c4)
        /\ C4Won(c4, RED) = PyFalse /\ C4Won(c4, BLUE) = PyFalse
TurnAlternates ==
    c4 # NoEngine /\ nmoves' = nmoves + 1 =>
        /\ c4.next_turn \in {RED, BLUE}
        /\ c4'.next_turn \in {RED, BLUE} \ {c4.next_turn}
C22_FreshAlternatesNotEnded ==
    /\ []FreshIsEmpty
    /\ []OpenNotEnded
    /\ [][TurnAlternates]_vars
\* four alternating moves in one column of a fresh engine
C22_Witness ==
    /\ c4 # NoEngine /\ nmoves = 4
    /\ \E col \in Cells :
          /\ c4.board[6][col] = BLUE /\ c4.board[5][col] = RED
          /\ c4.board[4][col] = BLUE /\ c4.board[3][col] = RED
    /\ StillOpen(c4.board) /\ ~C4Ended(c4)


(* C23: Engine2048.update toward a direction in which no tile has an empty *)
(* cell or an equal tile next to it leaves every cell of the board and the *)
(* points as they were and adds no tile, whatever add_random_tile would    *)
(* have chosen.                                                            *)
Stuck(board, dx, dy) ==
    \A x \in Side, y \in Side :
        board[x][y] # Empty /\ x + dx \in Side /\ y + dy \in Side
        => board[x + dx][y + dy] \notin {Empty, board[x][y]}
Tiles(board) == {c \in Side \X Side : board[c[1]][c[2]] # Empty}
C23_StuckUpdateChangesNothing ==
    e2048 # NoEngine =>
        \A d \in ARROWS :
            Stuck(e2048.board, d[1], d[2]) =>
                \A new_value \in {2, 4}, k \in SpawnChoices(e2048.board) :
                    LET after == Update2048(e2048, d[1], d[2], new_value, k)
                    IN /\ \A x \in Side, y \in Side :
                              after.board[x][y] = e2048.board[x][y]
                       /\ after.points = e2048.points
                       /\ Tiles(after.board) = Tiles(e2048.board)
\* an update has been made on a constructed engine and its two tiles are
\* alone where a direction is stuck
C23_Witness ==
    /\ e2048 # NoEngine /\ nmoves = 1 /\ ret = <<FALSE>>
    /\ Cardinality(Tiles(e2048.board)) = 2
    /\ e2048.points = 0
    /\ \E d \in ARROWS : Stuck(e2048.board, d[1], d[2])

(* C24: constructing Engine2048 gives a 4x4 board with exactly two         *)
(* non-empty cells, each holding 2 or 4, and points 0, for every outcome   *)
(* of the random choices.                                                  *)
C24_ConstructedHasTwoTiles ==
    e2048 # NoEngine /\ nmoves = 0 =>
        /\ DOMAIN e2048.board = 0..3
        /\ \A x \in 0..3 : DOMAIN e2048.board[x] = 0..3
        /\ Cardinality(Tiles(e2048.board)) = 2
        /\ \A c \in Tiles(e2048.board) : e2048.board[c[1]][c[2]] \in {2, 4}
        /\ e2048.points = 0
C24_Witness ==
    /\ e2048 # NoEngine /\ nmoves = 0
    /\ e2048.board[3][3] = 2 /\ e2048.board[0][0] = 4


(* C25: in every reachable state of each concrete engine the has-ended     *)
(* query (Connect4Engine.ended, Engine2048.game_done, NumguessEngine.ended)*)
(* is true exactly when won() is True or None and false exactly when won() *)
(* is False.                                                               *)
IsOver(w) == w \in {PyTrue, PyNone}
C25_EndedMatchesWon ==
    /\ c4 # NoEngine =>
          \A p \in {RED, BLUE} : C4Ended(c4) <=> IsOver(C4Won(c4, p))
    /\ e2048 # NoEngine => (GameDone(e2048) <=> IsOver(Won2048(e2048, FALSE)))
    /\ numguess # NoEngine => (NgEnded(numguess) <=> IsOver(NgWon(numguess)))


(* C26: NumguessEngine.update(guess) returns the sign of guess compared    *)
(* with the secret, -1 below, 0 equal, +1 above, doubled to -2 or +2 when  *)
(* the guess is outside the current bounds; it returns 0 exactly when the  *)
(* guess equals the secret; a guess outside the bounds leaves tries as it  *)
(* was and every other guess takes exactly one from tries. The bounds are  *)
(* read as the engine reads them: cur_min and cur_max themselves are       *)
(* outside.                                                                *)
Sign(a, b) == IF a < b THEN -1 ELSE IF a > b THEN 1 ELSE 0
OutOfBounds(e, guess) == guess <= e.cur_min \/ guess >= e.cur_max
UpdateAsDocumented(e, guess) ==
    /\ NgResult(e, guess) =
          IF OutOfBounds(e, guess) THEN 2 * Sign(guess, e.secret)
          ELSE Sign(guess, e.secret)
    /\ NgResult(e, guess) = 0 <=> guess = e.secret
    /\ NgUpdate(e, guess).tries =
          IF OutOfBounds(e, guess) THEN e.tries ELSE e.tries - 1
C26_UpdateReturnsSign ==
    numguess # NoEngine /\ NgWon(numguess) = PyFalse =>
        \A guess \in Guesses : UpdateAsDocumented(numguess, guess)


(* C27: when a render call made by one lobby session while it handles an   *)
(* event raises, that session alone ends and deregisters: every other      *)
(* session keeps its queue with the events in it, its position and its     *)
(* registration, so it goes on to handle that event and receives the later *)
(* ones, and a session only ever ends by raising out of its own handler.   *)
RaisesIn(i) == sess[i].pc # "raised" /\ sess'[i].pc = "raised"
OnlyThatSessionEnds ==
    \A i \in 1..Len(sess) :
        RaisesIn(i) =>
            /\ sess[i].pc \in {"display", "edit"}
            /\ ~sess'[i].reg
            /\ Len(sess') = Len(sess)
            /\ \A j \in 1..Len(sess) : j # i => sess'[j] = sess[j]
            /\ \A h \in Hosts : Registered(sess', h) = Registered(sess, h) \ {i}
C27_RaiseEndsOneSession == [][OnlyThatSessionEnds]_vars
\* one session has raised while another session of the same lobby, still
\* registered, is handling the event
C27_Witness ==
    \E i \in 1..Len(sess), j \in 1..Len(sess) :
        /\ sess[i].pc = "raised" /\ ~sess[i].reg
        /\ sess[j].host = sess[i].host
        /\ sess[j].reg /\ sess[j].pc = "display"


(* C29: when no render call raises and no session is cancelled, every      *)
(* update_brethren call eventually returns, also with another callback     *)
(* publishing at the same time and a session that returns on STARTED with  *)
(* later events still in its queue; so no callback stays suspended for     *)
(* ever, and a start sequence that has popped its participants goes on to  *)
(* construct the game.                                                     *)
NoFailure == \A i \in 1..Len(sess) : sess[i].pc \notin {"raised", "cancelled"}
AllReturned == BagToSet(pubs) = {}
C29_UpdateBrethrenReturns == []NoFailure => <>[]AllReturned


(* C30: every constructed game receives at least min_players and at most   *)
(* max_players players and at most max_spectators spectators, whatever the *)
(* interleaving of join, leave, host start and timer (a leave completing   *)
(* while a start is suspended included).                                   *)
WithinLimits(g) ==
    /\ Len(g.players) >= game.min_players
    /\ game.max_players # None => Len(g.players) <= game.max_players
    /\ game.max_spectators # None => Len(g.spectators) <= game.max_spectators
C30_GamesWithinLimits == \A i \in 1..Len(games) : WithinLimits(games[i])


(* C28: for every registered game, the construction that ends the start    *)
(* sequence succeeds when the popped participants are of permitted size:   *)
(* the engine defines the whole contract (update, ended, won), the         *)
(* constructor does not raise, and every popped participant gets a         *)
(* session.                                                                *)
ConstructionSucceeds(g) ==
    /\ AbstractMethods \cup {"ended"} \subseteq EngineMethods(game)
    /\ g.raised = "none"
    /\ g.views = g.players \o g.spectators
C28_ConstructionSucceeds ==
    game \in Registry =>
        \A i \in 1..Len(games) : WithinLimits(games[i]) => ConstructionSucceeds(games[i])


(* C31: the start timer of the public queue is affected only by operations *)
(* on the public queue: a leave or a start made on a private lobby of the  *)
(* game never cancels or clears it.                                        *)
TimerCleared == timeout_task # "none" /\ timeout_task' = "none"
ByPublicQueue == \A t \in Active : Steps(t) => t.host = NoHost
C31_TimerOwnParty == [][TimerCleared => ByPublicQueue]_vars


(* C32: in the public queue, whenever at least min_players players are     *)
(* queued and no start sequence is running on it, a start timer is         *)
(* pending (or has fired and its start_game task is waiting to run), so    *)
(* that a match is eventually started if nobody leaves.                    *)
PublicStarting == \E t \in Active : t.host = NoHost /\ (InStart(t) \/ t.op = "timer")
C32_QueuedImpliesTimer ==
    Len(Queued(NoHost)) >= game.min_players /\ ~PublicStarting
        => timeout_task # "none"


(* C33: within one party no identity is queued as a player and as a        *)
(* spectator at once, so the participants handed to a game never hold the  *)
(* same identity in both roles.                                            *)
OneRoleQueued ==
    \A h \in Hosts : Keys(Queued(h)) \cap Keys(QueuedSpectators(h)) = {}
OneRoleInGame ==
    \A i \in 1..Len(games) : Keys(games[i].players) \cap Keys(games[i].spectators) = {}
C33_OneRolePerParty == OneRoleQueued /\ OneRoleInGame


(* C34: every move applied to the engine of a Connect4 match is made by    *)
(* the participant whose colour is next_turn when it is applied, whatever  *)
(* the interleaving of play callbacks, MOVE_MADE events and re-renders: a  *)
(* participant cannot move twice in a row before the view is re-rendered.  *)
MoveApplied == nmoves' = nmoves + 1
C34_MoverHasTheTurn ==
    [][MoveApplied => ViewerColor(mevent'.sender) = c4.next_turn]_vars


(* C35: Connect4Engine.update(column) puts the mover's colour in the       *)
(* lowest empty cell of the column and changes no other cell; it never     *)
(* overwrites an occupied cell, a full column included, so the pieces of   *)
(* a column are a contiguous stack from the bottom.                        *)
Changed == {c \in Cells \X Cells : c4'.board[c[1]][c[2]] # c4.board[c[1]][c[2]]}
LowestEmpty(board, row, col) ==
    /\ board[row][col] = NONE
    /\ \A r \in Cells : r > row => board[r][col] # NONE
DropsOnePiece ==
    \E c \in Cells \X Cells :
        /\ Changed = {c}
        /\ LowestEmpty(c4.board, c[1], c[2])
        /\ c4'.board[c[1]][c[2]] = c4.next_turn
Stacked(board) ==
    \A row \in Cells, col \in Cells :
        board[row][col] # NONE => \A r \in Cells : r > row => board[r][col] # NONE
C35_UpdateDropsOnStack ==
    /\ [][c4 # NoEngine /\ nmoves' = nmoves + 1 => DropsOnePiece]_vars
    /\ [](c4 # NoEngine => Stacked(c4.board))


(* C36: within one Engine2048.update a tile produced by a merge does not   *)
(* merge again: along every line of the move, the tiles after it are the   *)
(* tiles before it with some pairs of equal tiles replaced by one tile of  *)
(* twice the value (2,2,4 gives 4,4 and not 8), and the points increase by *)
(* the sum of the values of the tiles so produced.                         *)
LineOf(board, d, i) ==
    IF d[1] = 0 THEN [j \in Side |-> board[i][j]] ELSE [j \in Side |-> board[j][i]]
TileValues == {2, 4, 8, 16, 32, 64}
PairsGive(before, after, merged) ==
    /\ \A j \in merged : after[j] # Empty
    /\ \A v \in TileValues :
          Cardinality({j \in Side : before[j] = v}) =
              Cardinality({j \in Side \ merged : after[j] = v})
              + 2 * Cardinality({j \in merged : after[j] = 2 * v})
ValueOf(line, merged, j) == IF j \in merged THEN line[j] ELSE 0
Gains(before, after) ==
    {ValueOf(after, merged, 0) + ValueOf(after, merged, 1)
       + ValueOf(after, merged, 2) + ValueOf(after, merged, 3) :
         merged \in {m \in SUBSET Side : PairsGive(before, after, m)}}
OneMergeEach(e, d) ==
    \E after \in {Settle(e, d[1], d[2], FALSE).engine} :
        \E g0 \in Gains(LineOf(e.board, d, 0), LineOf(after.board, d, 0)),
           g1 \in Gains(LineOf(e.board, d, 1), LineOf(after.board, d, 1)),
           g2 \in Gains(LineOf(e.board, d, 2), LineOf(after.board, d, 2)),
           g3 \in Gains(LineOf(e.board, d, 3), LineOf(after.board, d, 3)) :
            after.points = e.points + g0 + g1 + g2 + g3
C36_TileMergesOncePerMove ==
    e2048 # NoEngine => \A d \in ARROWS : OneMergeEach(e2048, d)

====
